---------------------------- MODULE Spec2Model ----------------------------
(***************************************************************************)
(* A state-machine model of the Obsidian Publish downloader:               *)
(*   - the artifact store (Redis keys download:<id>) written by the        *)
(*     download route and read once by the retrieval route;                *)
(*   - the robots.txt policy evaluator (checkRobotsAdvanced);              *)
(*   - the rate limiter (Ratelimit.slidingWindow(5, '1 h'));               *)
(*   - the download run (POST of api/download) with its crawl loop         *)
(*     (fetchVaultData) and its progress stream.                           *)
(***************************************************************************)
EXTENDS Integers, Sequences, FiniteSets, TLC

VARIABLES
    now,          \* wall clock, in seconds
    downloads,    \* Redis keys download:<id>: id -> NoEntry or [data, expiresAt]
    gpc,          \* retrieval request -> position in GET
    gid,          \* retrieval request -> params.id
    gdata,        \* retrieval request -> base64Data read at line 12
    gres,         \* retrieval request -> response
    gafter,       \* retrieval request -> it was issued after bytes were served for its id
    served,       \* id -> number of 200 responses that carried the archive
    started,      \* number of retrieval requests issued so far
    robotsResponse,  \* what the site answers for /robots.txt: [status, text]
    robotsResult,    \* what checkRobotsAdvanced returned, or NoResult
    redisConfigured, \* the Redis environment variables were set when utils.ts loaded
    rateHits,        \* limiter state: identity -> times of the requests it admitted
    limitLog,        \* identity -> the calls of rateLimiter.limit so far: [time, success]
    web,             \* the kind of site the crawl meets: "small", "chain", "tiny"
                     \* or "names"
    rpc,             \* position of the download run (POST of api/download)
    cleanUrl,        \* route.ts line 221
    vaultId,         \* route.ts line 226
    crawlDelay,      \* route.ts line 252, in milliseconds
    stream,          \* the response stream: its state and what was enqueued
    visited,         \* fetchVaultData: visited
    toVisit,         \* fetchVaultData: toVisit, the last element is popped next
    pageCount,       \* fetchVaultData: pageCount
    iterations,      \* turns of the while loop of fetchVaultData so far
    currentUrl,      \* fetchVaultData: currentUrl
    vaultData,       \* fetchVaultData: vaultData, in insertion order
    archiveBuffer,   \* route.ts line 290
    downloadId,      \* route.ts line 289
    counters,        \* Redis keys total_downloads, daily_downloads:<day>, vault_downloads:<id>
    request,         \* what the download request carries: its body and its caller
    response,        \* what POST returned: NoAnswer so far, or [status, error]
    blocked_vaults,  \* Redis set blocked_vaults
    sismembers,      \* the calls of redis.sismember('blocked_vaults', ...) so far: [member, result]
    consent_keys,    \* Redis keys consent:<vaultId>:<time>
    consent_log,     \* Redis list consent_log, the newest entry first
    fetches,         \* HTTP requests sent to the published site so far
    reports,         \* Redis hashes report:<id>
    pending_reports, \* Redis set pending_reports
    reportLog,       \* the answers of the report route so far: [vaultId, reason, status, time]
    built,           \* the calls of createArchive so far: [data, id, at, archive]
    waited,          \* milliseconds the run has waited since its last request to the site
    lastFetch        \* the last request sent to the site: [kind, page, waited, ok]

storeVars == <<now, downloads>>
getVars == <<gpc, gid, gdata, gres, gafter, served, started>>

robotsVars == <<robotsResponse, robotsResult>>
rateVars == <<redisConfigured, rateHits, limitLog>>

crawlVars == <<web, visited, toVisit, pageCount, iterations, currentUrl, vaultData>>
runVars == <<rpc, cleanUrl, vaultId, crawlDelay, archiveBuffer, downloadId, counters>>
runAllVars == <<runVars, crawlVars, stream>>
gateData == <<request, response, blocked_vaults, sismembers, consent_keys, consent_log>>
gateVars == <<gateData, fetches>>
reportVars == <<reports, pending_reports, reportLog>>
buildVars == <<built>>
paceVars == <<waited, lastFetch>>

vars == <<now, downloads, gpc, gid, gdata, gres, gafter, served, started,
          robotsResponse, robotsResult, redisConfigured, rateHits, limitLog,
          web, rpc, cleanUrl, vaultId, crawlDelay, stream, visited, toVisit,
          pageCount, iterations, currentUrl, vaultData, archiveBuffer,
          downloadId, counters, request, response, blocked_vaults, sismembers,
          consent_keys, consent_log, fetches, reports, pending_reports,
          reportLog, built, waited, lastFetch>>

---------------------------------------------------------------------------
(* Bounds of the model *)

\* retrieval requests that may be in flight together
NumRequests == 2
\* retrieval requests issued in one behaviour
MaxRetrievals == 3
\* clock ticks of half a TTL in one behaviour
MaxTicks == 3

---------------------------------------------------------------------------
(* The artifact store: route.ts 298-303, part_001 11-24 *)

\* redis.setex(`download:${downloadId}`, 600, ...), route.ts line 301
ttlSeconds == 600

DownloadIds == {"dl_1", "dl_2"}
Archives == {"zipA", "zipB"}
\* null, as redis.get answers for a key it does not hold
Nil == <<"nil">>

NoEntry == [data |-> Nil, expiresAt |-> 0]

\* archiveBuffer.toString('base64') and Buffer.from(base64Data, 'base64')
ToBase64(buffer) == <<"base64", buffer>>
FromBase64(str) == str[2]

\* A store whose keys never expire.
RedisGetIgnoringExpiry(id) ==
    IF downloads[id] # NoEntry
    THEN downloads[id].data
    ELSE Nil

\* Redis GET: a key whose TTL has run out reads as null
RedisGet(id) ==
    IF downloads[id] # NoEntry /\ now < downloads[id].expiresAt
    THEN downloads[id].data
    ELSE Nil

\* Redis SETEX key seconds value
RedisSetex(id, seconds, value) ==
    [downloads EXCEPT ![id] = [data |-> value, expiresAt |-> now + seconds]]

\* Redis DEL key
RedisDel(id) == [downloads EXCEPT ![id] = NoEntry]

\* The store step of a run: generateDownloadId() gives an id never used
\* before, and the archive is stored under it for 600 seconds.
Put(id, buffer) ==
    /\ downloads[id] = NoEntry
    /\ served[id] = 0
    /\ \A r \in 1..NumRequests : gpc[r] = "idle" \/ gid[r] # id
    /\ downloads' = RedisSetex(id, ttlSeconds, ToBase64(buffer))
    /\ UNCHANGED <<now>>
    /\ UNCHANGED getVars
    /\ UNCHANGED robotsVars
    /\ UNCHANGED gateVars
    /\ UNCHANGED rateVars
    /\ UNCHANGED runAllVars
    /\ UNCHANGED reportVars
    /\ UNCHANGED buildVars
    /\ UNCHANGED paceVars

\* Time passes.
Tick ==
    /\ now < MaxTicks * (ttlSeconds \div 2)
    /\ now' = now + (ttlSeconds \div 2)
    /\ UNCHANGED <<downloads>>
    /\ UNCHANGED getVars
    /\ UNCHANGED robotsVars
    /\ UNCHANGED gateVars
    /\ UNCHANGED rateVars
    /\ UNCHANGED runAllVars
    /\ UNCHANGED reportVars
    /\ UNCHANGED buildVars
    /\ UNCHANGED paceVars

---------------------------------------------------------------------------
(* GET /api/download/[id]: part_001 4-41 *)

\* The answers of GET: none yet, 404 (lines 14-18), 500 (lines 35-40), or
\* 200 with the bytes of the archive (lines 27-33)
NoResponse == <<"none">>
NotFound == <<"notfound">>
RetrievalError == <<"error">>
Served(buffer) == <<"zip", buffer>>

\* A request arrives: const downloadId = params.id (line 9)
GetStart(r, id) ==
    /\ gpc[r] = "idle"
    /\ started < MaxRetrievals
    /\ started' = started + 1
    /\ gpc' = [gpc EXCEPT ![r] = "get"]
    /\ gid' = [gid EXCEPT ![r] = id]
    /\ gdata' = [gdata EXCEPT ![r] = Nil]
    /\ gres' = [gres EXCEPT ![r] = NoResponse]
    /\ gafter' = [gafter EXCEPT ![r] = served[id] > 0]
    /\ UNCHANGED <<served>>
    /\ UNCHANGED storeVars
    /\ UNCHANGED robotsVars
    /\ UNCHANGED gateVars
    /\ UNCHANGED rateVars
    /\ UNCHANGED runAllVars
    /\ UNCHANGED reportVars
    /\ UNCHANGED buildVars
    /\ UNCHANGED paceVars

\* A handler that serves the archive and leaves the key in the store.
KeepsAfterServing == FALSE

\* Whether the handler deletes the key it has just read (line 24)
DeletesAfterServing == TRUE

\* lines 12-18: await redis.get; a missing value answers 404
GetRead(r) ==
    /\ gpc[r] = "get"
    /\ LET base64Data == RedisGet(gid[r]) IN
         IF base64Data = Nil
         THEN /\ gpc' = [gpc EXCEPT ![r] = "done"]
              /\ gres' = [gres EXCEPT ![r] = NotFound]
              /\ UNCHANGED <<gdata>>
         ELSE /\ gpc' = [gpc EXCEPT ![r] = "del"]
              /\ gdata' = [gdata EXCEPT ![r] = base64Data]
              /\ UNCHANGED <<gres>>
    /\ UNCHANGED <<gid, gafter, served, started>>
    /\ UNCHANGED storeVars
    /\ UNCHANGED robotsVars
    /\ UNCHANGED gateVars
    /\ UNCHANGED rateVars
    /\ UNCHANGED runAllVars
    /\ UNCHANGED reportVars
    /\ UNCHANGED buildVars
    /\ UNCHANGED paceVars

\* lines 21-33: decode, await redis.del, answer 200 with the buffer
GetDel(r) ==
    /\ gpc[r] = "del"
    /\ downloads' = IF DeletesAfterServing THEN RedisDel(gid[r]) ELSE downloads
    /\ gpc' = [gpc EXCEPT ![r] = "done"]
    /\ gres' = [gres EXCEPT ![r] = Served(FromBase64(gdata[r]))]
    /\ served' = [served EXCEPT ![gid[r]] = @ + 1]
    /\ UNCHANGED <<now, gid, gdata, gafter, started>>
    /\ UNCHANGED robotsVars
    /\ UNCHANGED gateVars
    /\ UNCHANGED rateVars
    /\ UNCHANGED runAllVars
    /\ UNCHANGED reportVars
    /\ UNCHANGED buildVars
    /\ UNCHANGED paceVars

\* lines 35-40: redis.get or redis.del throws (the store cannot be reached):
\* the handler answers 500 and the key stays as it was
GetFail(r) ==
    /\ gpc[r] \in {"get", "del"}
    /\ gpc' = [gpc EXCEPT ![r] = "done"]
    /\ gres' = [gres EXCEPT ![r] = RetrievalError]
    /\ UNCHANGED <<gid, gdata, gafter, served, started>>
    /\ UNCHANGED storeVars
    /\ UNCHANGED robotsVars
    /\ UNCHANGED gateVars
    /\ UNCHANGED rateVars
    /\ UNCHANGED runAllVars
    /\ UNCHANGED reportVars
    /\ UNCHANGED buildVars
    /\ UNCHANGED paceVars

\* The response has been sent; the slot takes the next request.
GetEnd(r) ==
    /\ gpc[r] = "done"
    /\ gpc' = [gpc EXCEPT ![r] = "idle"]
    /\ UNCHANGED <<gid, gdata, gres, gafter, served, started>>
    /\ UNCHANGED storeVars
    /\ UNCHANGED robotsVars
    /\ UNCHANGED gateVars
    /\ UNCHANGED rateVars
    /\ UNCHANGED runAllVars
    /\ UNCHANGED reportVars
    /\ UNCHANGED buildVars
    /\ UNCHANGED paceVars

NoneInFlight == \A r \in 1..NumRequests : gpc[r] = "idle"

StoreInit ==
    /\ now = 0
    /\ downloads = [id \in DownloadIds |-> NoEntry]

GetInit ==
    /\ gpc = [r \in 1..NumRequests |-> "idle"]
    /\ gid = [r \in 1..NumRequests |-> "dl_1"]
    /\ gdata = [r \in 1..NumRequests |-> Nil]
    /\ gres = [r \in 1..NumRequests |-> NoResponse]
    /\ gafter = [r \in 1..NumRequests |-> FALSE]
    /\ served = [id \in DownloadIds |-> 0]
    /\ started = 0

---------------------------------------------------------------------------
(* The policy evaluator: checkRobotsAdvanced, route.ts 56-115 *)

\* lines of robots.txt in one document
MaxLines == 3

\* A line of robots.txt is a sequence of atoms; an atom is a run of
\* characters that the parser never cuts: a field name, ":", a blank, a value.
RobotsLines ==
    { <<"User-agent", ":", " ", "*">>,
      <<"user-agent", ":", "*">>,
      <<"User-agent", ":", " ", "ObsidianDownloader">>,
      <<"User-agent", ":", " ", "Googlebot">>,
      <<"Disallow", ":", " ", "/">>,
      <<" ", "DISALLOW", ":", "/", " ">>,
      <<"Disallow", ":">>,
      <<"Disallow", ":", " ", "/", "private">>,
      <<"Allow", ":", " ", "/">>,
      <<"Crawl-delay", ":", " ", "2">>,
      <<"Crawl-delay", ":", " ", "0">>,
      <<"Crawl-delay", ":", " ", "-1">>,
      <<"Crawl-delay", ":">>,
      <<"#", " ", "sitemap">> }

RobotsDocuments == UNION { [1..n -> RobotsLines] : n \in 0..MaxLines }

RobotsResponses ==
    { [status |-> st, text |-> <<>>] : st \in {"throws", "notok"} }
        \cup { [status |-> "ok", text |-> d] : d \in RobotsDocuments }

NoResult == [allowed |-> FALSE, crawlDelay |-> 0]

\* String.prototype.toLowerCase, atom by atom
ToLowerCase(atom) ==
    CASE atom \in {"User-agent", "USER-AGENT"} -> "user-agent"
      [] atom \in {"Disallow", "DISALLOW"} -> "disallow"
      [] atom \in {"Allow", "ALLOW"} -> "allow"
      [] atom \in {"Crawl-delay", "CRAWL-DELAY"} -> "crawl-delay"
      [] atom = "ObsidianDownloader" -> "obsidiandownloader"
      [] atom = "Googlebot" -> "googlebot"
      [] OTHER -> atom

LowerLine(line) == [k \in 1..Len(line) |-> ToLowerCase(line[k])]

\* String.prototype.trim
RECURSIVE TrimStart(_)
TrimStart(s) == IF s # <<>> /\ Head(s) = " " THEN TrimStart(Tail(s)) ELSE s

RECURSIVE TrimEnd(_)
TrimEnd(s) ==
    IF s # <<>> /\ s[Len(s)] = " " THEN TrimEnd(SubSeq(s, 1, Len(s) - 1)) ELSE s

Trim(s) == TrimEnd(TrimStart(s))

\* line.startsWith('<field>:')
StartsWith(line, field) == Len(line) >= 2 /\ line[1] = field /\ line[2] = ":"

\* line.split(':')[1]?.trim() of a line that holds a colon: what stands
\* between the first colon and the second one (or the end of the line)
RECURSIVE UpToColon(_)
UpToColon(s) ==
    IF s = <<>> \/ Head(s) = ":" THEN <<>> ELSE <<Head(s)>> \o UpToColon(Tail(s))

RECURSIVE AfterColon(_)
AfterColon(s) ==
    IF s = <<>> THEN <<>> ELSE IF Head(s) = ":" THEN Tail(s) ELSE AfterColon(Tail(s))

SplitColon1(line) == Trim(UpToColon(AfterColon(line)))

\* parseInt(text || '1'): the number the text starts with, or NaN
ParseInt(text) ==
    IF text = <<>> THEN [isNaN |-> FALSE, value |-> 1]
    ELSE CASE Head(text) = "2" -> [isNaN |-> FALSE, value |-> 2]
           [] Head(text) = "0" -> [isNaN |-> FALSE, value |-> 0]
           [] Head(text) = "-1" -> [isNaN |-> FALSE, value |-> -1]
           [] OTHER -> [isNaN |-> TRUE, value |-> 0]

\* A maximum that returns its first argument.
FirstOf(a, b) == a

Max(a, b) == IF a >= b THEN a ELSE b

\* A parser for which the group of every agent applies.
AnyAgentMatches(agent) == TRUE

\* line 90: agent === '*' || agent === 'obsidiandownloader'
AgentMatches(agent) == agent = <<"*">> \/ agent = <<"obsidiandownloader">>

\* A parser that denies the site on the path "/" alone, or on the empty path alone.
DenyOnEmptyOnly(path) == path = <<>>

\* line 97: path === '/' || path === ''
DeniesSite(path) == path = <<"/">> \/ path = <<>>

\* One turn of the loop of lines 84-109 on a trimmed line; st is
\* [userAgentMatch, allowed, crawlDelay]
RobotsLine(st, trimmed) ==
    LET line == LowerLine(trimmed) IN
    IF StartsWith(line, "user-agent")
    THEN [st EXCEPT !.userAgentMatch = AgentMatches(SplitColon1(line))]
    ELSE IF ~st.userAgentMatch THEN st
    ELSE LET afterDisallow ==
                 IF StartsWith(line, "disallow") /\ DeniesSite(SplitColon1(line))
                 THEN [st EXCEPT !.allowed = FALSE]
                 ELSE st
             delay == ParseInt(SplitColon1(line))
         IN  IF StartsWith(line, "crawl-delay") /\ ~delay.isNaN
             THEN [afterDisallow EXCEPT !.crawlDelay = Max(delay.value * 1000, 500)]
             ELSE afterDisallow

RECURSIVE RobotsLoop(_, _, _)
RobotsLoop(st, lines, i) ==
    IF i > Len(lines) THEN st
    ELSE RobotsLoop(RobotsLine(st, Trim(lines[i])), lines, i + 1)

\* An evaluator that refuses the crawl when robots.txt cannot be read.
checkRobotsOrRefuse(fetched) ==
    IF fetched.status # "ok"
    THEN [allowed |-> FALSE, crawlDelay |-> 1000]
    ELSE LET st == RobotsLoop([userAgentMatch |-> FALSE, allowed |-> TRUE,
                               crawlDelay |-> 1000], fetched.text, 1)
         IN  [allowed |-> st.allowed, crawlDelay |-> st.crawlDelay]

\* checkRobotsAdvanced: the defaults of lines 74 and 113, or the parse
checkRobotsAdvanced(fetched) ==
    IF fetched.status # "ok"
    THEN [allowed |-> TRUE, crawlDelay |-> 1000]
    ELSE LET st == RobotsLoop([userAgentMatch |-> FALSE, allowed |-> TRUE,
                               crawlDelay |-> 1000], fetched.text, 1)
         IN  [allowed |-> st.allowed, crawlDelay |-> st.crawlDelay]

\* No request has been sent to the site
NoFetch == [kind |-> "none", page |-> 0, waited |-> 0, ok |-> FALSE]

\* A request of the given kind is sent to the site: fetch() is called, and
\* returns what its caller can use (ok) or not
Sent(kind, ok) ==
    /\ fetches' = fetches + 1
    /\ lastFetch' = [kind |-> kind, page |-> pageCount, waited |-> waited, ok |-> ok]
    /\ waited' = 0

PaceIdle ==
    /\ waited = 0
    /\ lastFetch = NoFetch

RobotsIdle ==
    /\ robotsResponse = [status |-> "throws", text |-> <<>>]
    /\ robotsResult = NoResult

RobotsInit ==
    /\ robotsResponse \in RobotsResponses
    /\ robotsResult = NoResult

\* The policy evaluator runs on the answer of the site.
CheckRobots ==
    /\ robotsResult = NoResult
    /\ robotsResult' = checkRobotsAdvanced(robotsResponse)
    /\ Sent("robots", robotsResponse.status = "ok")
    /\ UNCHANGED <<robotsResponse>>
    /\ UNCHANGED storeVars
    /\ UNCHANGED getVars
    /\ UNCHANGED rateVars
    /\ UNCHANGED runAllVars
    /\ UNCHANGED gateData
    /\ UNCHANGED reportVars
    /\ UNCHANGED buildVars

---------------------------------------------------------------------------
(* The rate limiter: utils.ts 21-30, called by POST at route.ts 239-246 *)

\* calls of rateLimiter.limit in one behaviour
MaxLimitCalls == 7
\* clock ticks of half a window in one behaviour
MaxRateTicks == 3

\* Ratelimit.slidingWindow(5, '1 h'), utils.ts line 24
rateQuota == 5
windowSeconds == 3600

Identities == {"ip1", "ip2"}

\* The admitted requests of an identity that the window ending now still holds
HitsInWindow(ip) == Cardinality({k \in 1..Len(rateHits[ip]) : rateHits[ip][k] > now - windowSeconds})

\* A limiter that admits one request more than the quota.
AdmitsUpToQuotaAndOne(ip) == HitsInWindow(ip) <= rateQuota

\* The sliding-window limiter admits a request while the window holds fewer
\* admitted requests than the quota.
SlidingWindowAdmits(ip) == HitsInWindow(ip) < rateQuota

\* rateLimiter.limit(ip): the sliding-window limiter when Redis is configured
\* (lines 22-26), else the fallback that always succeeds (lines 27-30). A
\* denied request leaves the limiter state as it was.
LimitSuccess(ip) == IF redisConfigured THEN SlidingWindowAdmits(ip) ELSE TRUE

LimitCall(ip) ==
    /\ limitLog' = [limitLog EXCEPT
                        ![ip] = Append(@, [time |-> now, success |-> LimitSuccess(ip)])]
    /\ rateHits' = IF redisConfigured /\ LimitSuccess(ip)
                   THEN [rateHits EXCEPT ![ip] = Append(@, now)]
                   ELSE rateHits

\* A request of some caller reaches the limiter.
Limit(ip) ==
    /\ Len(limitLog["ip1"]) + Len(limitLog["ip2"]) < MaxLimitCalls
    /\ LimitCall(ip)
    /\ UNCHANGED <<redisConfigured>>
    /\ UNCHANGED storeVars
    /\ UNCHANGED getVars
    /\ UNCHANGED robotsVars
    /\ UNCHANGED gateVars
    /\ UNCHANGED runAllVars
    /\ UNCHANGED reportVars
    /\ UNCHANGED buildVars
    /\ UNCHANGED paceVars

\* Time passes.
RateTick ==
    /\ now < MaxRateTicks * (windowSeconds \div 2)
    /\ now' = now + (windowSeconds \div 2)
    /\ UNCHANGED <<downloads>>
    /\ UNCHANGED getVars
    /\ UNCHANGED robotsVars
    /\ UNCHANGED gateVars
    /\ UNCHANGED rateVars
    /\ UNCHANGED runAllVars
    /\ UNCHANGED reportVars
    /\ UNCHANGED buildVars
    /\ UNCHANGED paceVars

RateIdle ==
    /\ redisConfigured = TRUE
    /\ rateHits = [ip \in Identities |-> <<>>]
    /\ limitLog = [ip \in Identities |-> <<>>]

RateInit ==
    /\ redisConfigured \in BOOLEAN
    /\ rateHits = [ip \in Identities |-> <<>>]
    /\ limitLog = [ip \in Identities |-> <<>>]

---------------------------------------------------------------------------
(* URLs: route.ts 31-53, 174-208, 383-385 *)

\* anchors of one fetched document
MaxAnchors == 2

PublishHost == "publish.obsidian.md"

\* A URL, as the string the code holds, cut into its parts.
Url(host, path) == [host |-> host, path |-> path, hash |-> "", search |-> ""]

RootUrl == Url(PublishHost, <<"vault-a">>)

\* The k-th page of an endless vault: a URL no earlier page has named.
FreshUrl(k) == Url(PublishHost, <<"vault-a", "page" \o ToString(k)>>)

\* The URLs the anchors of the small site point to
SmallUrls ==
    { RootUrl, FreshUrl(1),
      [RootUrl EXCEPT !.hash = "#top"],
      Url(PublishHost, <<"vault-b", "x">>),
      Url("other.example", <<"blog">>) }

TinyUrls == { RootUrl, FreshUrl(1) }

\* The start page again, named with a trailing slash
SlashUrl == Url(PublishHost, <<"vault-a", "">>)

\* The page of a site whose identifier is README.md
ReadmeUrl == Url(PublishHost, <<"README.md">>)

\* The URLs the anchors of a site of look-alike names point to
NameUrls == { RootUrl, SlashUrl, ReadmeUrl }

\* A page of the endless vault that its pages keep linking to
SideUrl == Url(PublishHost, <<"vault-a", "about">>)

SeqsUpTo(S, n) == UNION { [1..k -> S] : k \in 0..n }

\* What the href attributes of the document fetched for url may resolve to,
\* in document order: any anchors over the URLs of a small site, or, on the
\* endless site, anchors back to the start, to the page itself and to a URL
\* never seen before.
AnchorChoices(url) ==
    CASE web = "small" -> SeqsUpTo(SmallUrls, MaxAnchors)
      [] web = "tiny" -> SeqsUpTo(TinyUrls, 1)
      [] web = "names" -> SeqsUpTo(NameUrls, MaxAnchors)
      [] OTHER -> { <<FreshUrl(pageCount)>>,
                    <<RootUrl, url, FreshUrl(pageCount)>>,
                    <<SideUrl, FreshUrl(pageCount)>> }

\* What fetchPageContent may return for a page: null (NoPage), or the
\* trimmed text and the title
NoPage == [content |-> "null", title |-> "null"]
PageChoices ==
    IF web = "chain"
    THEN { [content |-> "Hello", title |-> "Untitled"] }
    ELSE { NoPage, [content |-> "Hello", title |-> "Untitled"],
           [content |-> "", title |-> "Untitled"] }

\* Array.from(new Set(links)): the first occurrence of each link is kept
RECURSIVE Dedupe(_)
Dedupe(links) ==
    IF links = <<>> THEN <<>>
    ELSE LET rest == Dedupe(SubSeq(links, 1, Len(links) - 1))
             last == links[Len(links)]
         IN  IF \E k \in 1..Len(rest) : rest[k] = last THEN rest ELSE Append(rest, last)

\* A link extractor that keeps the anchors of every host.
extractLinksOfAnyHost(anchors) == Dedupe(anchors)

\* extractLinks: the anchors on the Obsidian Publish host, without repeats
extractLinks(anchors) ==
    Dedupe(SelectSeq(anchors, LAMBDA u : u.host = PublishHost))

\* pathname without its leading slash
RECURSIVE JoinPath(_)
JoinPath(path) ==
    IF Len(path) = 1 THEN path[1]
    ELSE JoinPath(SubSeq(path, 1, Len(path) - 1)) \o "/" \o path[Len(path)]

\* name.endsWith('.md'), for the names the sites of the model use
EndsWithMd(name) == name \in {"README.md"}

\* line 385: cleanPath.endsWith('.md') ? cleanPath : `${cleanPath}.md`
WithMd(cleanPath, last) ==
    IF EndsWithMd(last) THEN cleanPath ELSE cleanPath \o ".md"

\* route.ts 383-385: the archive path of a page. An empty last segment is
\* the trailing slash of the pathname, which line 384 removes.
FileName(url) ==
    LET segs == url.path
        stripped == IF segs # <<>> /\ segs[Len(segs)] = ""
                    THEN SubSeq(segs, 1, Len(segs) - 1) ELSE segs
    IN  IF stripped = <<>> THEN WithMd("index", "index")
        ELSE WithMd(JoinPath(stripped), stripped[Len(stripped)])

---------------------------------------------------------------------------
(* The progress stream: route.ts 260-333 *)

runData == <<cleanUrl, vaultId, crawlDelay, archiveBuffer, downloadId, counters>>

\* Where the run stood when the caller cancelled the stream
NotCancelled == [rpc |-> "none", pageCount |-> 0, fetches |-> 0]

NoStream == [state |-> "none", last |-> 0, low |-> 100, high |-> 0,
             decreased |-> FALSE, completes |-> 0, errors |-> 0, late |-> FALSE,
             downloadId |-> "none", totalPages |-> 0, cancelledAt |-> NotCancelled]

OpenStream == [NoStream EXCEPT !.state = "open"]

Progress(value) == [type |-> "progress", value |-> value]
\* lines 314-321: the complete event carries the download id and the
\* number of pages
\* A complete event that counts the pages visited.
CompleteCountingVisited ==
    [type |-> "complete", value |-> 0, downloadId |-> downloadId, totalPages |-> pageCount]

Complete ==
    [type |-> "complete", value |-> 0, downloadId |-> downloadId,
     totalPages |-> Len(vaultData)]
Failure == [type |-> "error", value |-> 0]

Min(a, b) == IF a <= b THEN a ELSE b

\* controller.enqueue(event) on an open stream
Enqueue(s, ev) ==
    [s EXCEPT
        !.last = IF ev.type = "progress" THEN ev.value ELSE @,
        !.low = IF ev.type = "progress" THEN Min(@, ev.value) ELSE @,
        !.high = IF ev.type = "progress" THEN Max(@, ev.value) ELSE @,
        !.decreased = @ \/ (ev.type = "progress" /\ ev.value < s.last),
        !.completes = IF ev.type = "complete" THEN @ + 1 ELSE @,
        !.errors = IF ev.type = "error" THEN @ + 1 ELSE @,
        !.late = @ \/ s.completes + s.errors > 0,
        !.downloadId = IF ev.type = "complete" THEN ev.downloadId ELSE @,
        !.totalPages = IF ev.type = "complete" THEN ev.totalPages ELSE @]

\* controller.close()
Close(s) == [s EXCEPT !.state = "closed"]

\* route.ts line 273: the value of the progress event of the crawl
CrawlValue(progress) == 5 + ((progress * 7) \div 10)

\* route.ts line 371, times 0.7 and floored (line 273), in one division
LoopValue(count, pending) == 5 + ((count * 70) \div Max(count + pending, 1))

\* A run that swallows the failure of enqueue and goes on to fetch.
KeepsCrawling ==
    /\ rpc' = "fetchPage"
    /\ UNCHANGED <<stream>>

\* controller.enqueue throws once the consumer has cancelled the stream; the
\* catch block's enqueue and the finally block's close throw as well
\* (lines 323-331), and the run is over.
Aborts ==
    /\ rpc' = "aborted"
    /\ UNCHANGED <<stream>>

\* A catch block that closes the stream without an error event.
CatchesSilently ==
    IF stream.state = "open"
    THEN /\ stream' = Close(stream)
         /\ rpc' = "closed"
    ELSE Aborts

\* lines 323-331: the catch block enqueues the error event, finally closes
Catches ==
    IF stream.state = "open"
    THEN /\ stream' = Close(Enqueue(stream, Failure))
         /\ rpc' = "closed"
    ELSE Aborts

\* The caller goes away: the stream is cancelled.
Disconnect ==
    /\ stream.state = "open"
    /\ stream' = [stream EXCEPT
                      !.state = "cancelled",
                      !.cancelledAt = [rpc |-> rpc, pageCount |-> pageCount,
                                       fetches |-> fetches]]
    /\ UNCHANGED <<rpc>>
    /\ UNCHANGED runData
    /\ UNCHANGED crawlVars
    /\ UNCHANGED storeVars
    /\ UNCHANGED getVars
    /\ UNCHANGED robotsVars
    /\ UNCHANGED gateVars
    /\ UNCHANGED rateVars
    /\ UNCHANGED reportVars
    /\ UNCHANGED buildVars
    /\ UNCHANGED paceVars

---------------------------------------------------------------------------
(* The crawl: fetchVaultData, route.ts 351-429 *)

\* const maxPages = 500, route.ts line 359
maxPages == 500

\* A loop that stops one page late.
LoopGuardOffByOne == toVisit # <<>> /\ pageCount <= maxPages

\* line 364: while (toVisit.length > 0 && pageCount < maxPages)
LoopGuard == toVisit # <<>> /\ pageCount < maxPages

\* A map that keeps the value a key already has.
MapSetKeepingFirst(map, key, value) ==
    IF \E k \in 1..Len(map) : map[k].path = key
    THEN map
    ELSE Append(map, value)

\* vaultData.set(fileName, value): a Map keeps the place of a key it holds
MapSet(map, key, value) ==
    IF \E k \in 1..Len(map) : map[k].path = key
    THEN [k \in 1..Len(map) |-> IF map[k].path = key THEN value ELSE map[k]]
    ELSE Append(map, value)

\* A crawler that pushes every link it finds.
RECURSIVE PushEveryLink(_, _)
PushEveryLink(pending, links) ==
    IF links = <<>> THEN pending
    ELSE PushEveryLink(Append(pending, Head(links)), Tail(links))

\* lines 415-419: the links neither visited nor pending are pushed, in order
RECURSIVE PushLinks(_, _)
PushLinks(pending, links) ==
    IF links = <<>> THEN pending
    ELSE LET link == Head(links)
             known == link \in visited \/ \E k \in 1..Len(pending) : pending[k] = link
         IN  PushLinks(IF known THEN pending ELSE Append(pending, link), Tail(links))

\* lines 261-267 and 356-362: start() enqueues the first progress event and
\* calls fetchVaultData, which reports progress 0
StreamStart ==
    /\ rpc = "stream"
    /\ IF stream.state = "open"
       THEN /\ stream' = Enqueue(Enqueue(stream, Progress(5)), Progress(CrawlValue(0)))
            /\ rpc' = "loop"
       ELSE Aborts
    /\ UNCHANGED runData
    /\ visited' = {}
    /\ toVisit' = <<cleanUrl>>
    /\ pageCount' = 0
    /\ vaultData' = <<>>
    /\ UNCHANGED <<web, iterations, currentUrl>>
    /\ UNCHANGED storeVars
    /\ UNCHANGED getVars
    /\ UNCHANGED robotsVars
    /\ UNCHANGED gateVars
    /\ UNCHANGED rateVars
    /\ UNCHANGED reportVars
    /\ UNCHANGED buildVars
    /\ UNCHANGED paceVars

\* lines 364-377 and 427: the head of one turn of the loop, up to the wait
\* or the fetch; or the end of the loop
LoopHead ==
    /\ rpc = "loop"
    /\ IF LoopGuard
       THEN LET url == toVisit[Len(toVisit)]
                rest == SubSeq(toVisit, 1, Len(toVisit) - 1)
            IN  /\ iterations' = iterations + 1
                /\ toVisit' = rest
                /\ currentUrl' = url
                /\ IF url \in visited
                   THEN UNCHANGED <<visited, pageCount, stream, rpc>>
                   ELSE /\ visited' = visited \cup {url}
                        /\ pageCount' = pageCount + 1
                        /\ IF stream.state = "open"
                           THEN /\ stream' = Enqueue(stream,
                                      Progress(LoopValue(pageCount + 1, Len(rest))))
                                /\ rpc' = IF pageCount + 1 > 1 THEN "delay" ELSE "fetchPage"
                           ELSE Aborts
       ELSE /\ IF stream.state = "open"
               THEN /\ stream' = Enqueue(stream, Progress(CrawlValue(100)))
                    /\ rpc' = "crawled"
               ELSE Aborts
            /\ UNCHANGED <<visited, toVisit, pageCount, iterations, currentUrl>>
    /\ UNCHANGED <<web, vaultData>>
    /\ UNCHANGED runData
    /\ UNCHANGED storeVars
    /\ UNCHANGED getVars
    /\ UNCHANGED robotsVars
    /\ UNCHANGED gateVars
    /\ UNCHANGED rateVars
    /\ UNCHANGED reportVars
    /\ UNCHANGED buildVars
    /\ UNCHANGED paceVars

\* lines 375-377: the crawl delay has passed
Delay ==
    /\ rpc = "delay"
    /\ rpc' = "fetchPage"
    /\ UNCHANGED runData
    /\ UNCHANGED crawlVars
    /\ UNCHANGED <<stream>>
    /\ UNCHANGED storeVars
    /\ UNCHANGED getVars
    /\ UNCHANGED robotsVars
    /\ UNCHANGED gateVars
    /\ UNCHANGED rateVars
    /\ UNCHANGED reportVars
    /\ UNCHANGED buildVars
    /\ waited' = waited + crawlDelay
    /\ UNCHANGED <<lastFetch>>

\* A crawl that gives up when a page cannot be fetched.
FetchPageOrThrow(pageData) ==
    /\ rpc = "fetchPage"
    /\ IF pageData = NoPage
       THEN /\ Catches
            /\ UNCHANGED <<vaultData>>
       ELSE /\ vaultData' = MapSet(vaultData, FileName(currentUrl),
                                   [path |-> FileName(currentUrl),
                                    content |-> pageData.content,
                                    title |-> pageData.title,
                                    url |-> currentUrl,
                                    crawledAt |-> now])
            /\ rpc' = IF pageCount < maxPages THEN "fetchLinks" ELSE "loop"
    /\ UNCHANGED runData
    /\ UNCHANGED <<web, visited, toVisit, pageCount, iterations, currentUrl>>
    /\ pageData # NoPage => UNCHANGED <<stream>>
    /\ UNCHANGED storeVars
    /\ UNCHANGED getVars
    /\ UNCHANGED robotsVars
    /\ Sent("page", pageData # NoPage)
    /\ UNCHANGED gateData
    /\ UNCHANGED rateVars
    /\ UNCHANGED reportVars
    /\ UNCHANGED buildVars

\* lines 379-398: fetchPageContent returns; a page is stored under its path
FetchPage(pageData) ==
    /\ rpc = "fetchPage"
    /\ IF pageData = NoPage
       THEN /\ rpc' = "loop"
            /\ UNCHANGED <<vaultData>>
       ELSE /\ vaultData' = MapSet(vaultData, FileName(currentUrl),
                                   [path |-> FileName(currentUrl),
                                    content |-> pageData.content,
                                    title |-> pageData.title,
                                    url |-> currentUrl,
                                    crawledAt |-> now])
            /\ rpc' = IF pageCount < maxPages THEN "fetchLinks" ELSE "loop"
    /\ UNCHANGED runData
    /\ UNCHANGED <<web, visited, toVisit, pageCount, iterations, currentUrl>>
    /\ UNCHANGED <<stream>>
    /\ UNCHANGED storeVars
    /\ UNCHANGED getVars
    /\ UNCHANGED robotsVars
    /\ Sent("page", pageData # NoPage)
    /\ UNCHANGED gateData
    /\ UNCHANGED rateVars
    /\ UNCHANGED reportVars
    /\ UNCHANGED buildVars

\* lines 399-423: the second fetch of the page returns; with ok false, or
\* when it throws, nothing is pushed
FetchLinks(ok, anchors) ==
    /\ rpc = "fetchLinks"
    /\ ok \/ web # "chain"
    /\ toVisit' = IF ok THEN PushLinks(toVisit, extractLinks(anchors)) ELSE toVisit
    /\ rpc' = "loop"
    /\ UNCHANGED runData
    /\ UNCHANGED <<web, visited, pageCount, iterations, currentUrl, vaultData>>
    /\ UNCHANGED <<stream>>
    /\ UNCHANGED storeVars
    /\ UNCHANGED getVars
    /\ UNCHANGED robotsVars
    /\ Sent("links", ok)
    /\ UNCHANGED gateData
    /\ UNCHANGED rateVars
    /\ UNCHANGED reportVars
    /\ UNCHANGED buildVars

---------------------------------------------------------------------------
(* After the crawl: route.ts 278-331, createArchive 431-507, utils.ts 237-259 *)

VaultIds == {"vault-a", "vault-b"}

NoArchive == [comment |-> "none", entries |-> <<>>]

\* An archive builder that writes the time of the build into the comment.
createArchiveStampedComment(data, id) ==
    [comment |-> id \o "@" \o ToString(now),
     entries |->
        << [name |-> "vault-metadata.json",
            body |-> [vault_id |-> id, download_date |-> now,
                      total_pages |-> Len(data),
                      pages |-> [k \in 1..Len(data) |->
                                   [path |-> data[k].path, title |-> data[k].title,
                                    url |-> data[k].url, crawled_at |-> data[k].crawledAt]]]],
           [name |-> "README.md",
            body |-> [pages |-> Len(data), generated |-> now]] >>
        \o [k \in 1..Len(data) |->
              [name |-> data[k].path,
               body |-> [title |-> data[k].title, source_url |-> data[k].url,
                         archived_at |-> data[k].crawledAt, content |-> data[k].content]]]]

\* An archive builder that leaves the README out.
createArchiveWithoutReadme(data, id) ==
    [comment |-> id,
     entries |->
        << [name |-> "vault-metadata.json",
            body |-> [vault_id |-> id, download_date |-> now,
                      total_pages |-> Len(data),
                      pages |-> [k \in 1..Len(data) |->
                                   [path |-> data[k].path, title |-> data[k].title,
                                    url |-> data[k].url, crawled_at |-> data[k].crawledAt]]]] >>
        \o [k \in 1..Len(data) |->
              [name |-> data[k].path,
               body |-> [title |-> data[k].title, source_url |-> data[k].url,
                         archived_at |-> data[k].crawledAt, content |-> data[k].content]]]]

\* createArchive: the manifest, the README, then one entry per page
createArchive(data, id) ==
    [comment |-> id,
     entries |->
        << [name |-> "vault-metadata.json",
            body |-> [vault_id |-> id, download_date |-> now,
                      total_pages |-> Len(data),
                      pages |-> [k \in 1..Len(data) |->
                                   [path |-> data[k].path, title |-> data[k].title,
                                    url |-> data[k].url, crawled_at |-> data[k].crawledAt]]]],
           [name |-> "README.md",
            body |-> [pages |-> Len(data), generated |-> now]] >>
        \o [k \in 1..Len(data) |->
              [name |-> data[k].path,
               body |-> [title |-> data[k].title, source_url |-> data[k].url,
                         archived_at |-> data[k].crawledAt, content |-> data[k].content]]]]

NoCounters == [total |-> 0, daily |-> 0, vault |-> [v \in VaultIds |-> 0]]

\* A counter routine that counts the run for every site.
incrementDownloadCountOfAllSites(c, id, failAt) ==
    IF ~redisConfigured \/ failAt = "total" THEN c
    ELSE [total |-> c.total + 1, daily |-> c.daily + 1,
          vault |-> [v \in VaultIds |-> c.vault[v] + 1]]

\* incrementDownloadCount: the increments made before the call that throws
\* (failAt), all of them when none throws; nothing without Redis
incrementDownloadCount(c, id, failAt) ==
    IF ~redisConfigured \/ failAt = "total" THEN c
    ELSE LET c1 == [c EXCEPT !.total = @ + 1] IN
         IF failAt = "daily" THEN c1
         ELSE LET c2 == [c1 EXCEPT !.daily = @ + 1] IN
              IF failAt \in {"expire", "vault"} THEN c2
              ELSE [c2 EXCEPT !.vault[id] = @ + 1]

FailPoints == {"none", "total", "daily", "expire", "vault"}

\* A run that archives whatever the crawl found, were it nothing.
AfterCrawlOfNothing(id) ==
    /\ rpc = "crawled"
    /\ downloads[id] = NoEntry /\ served[id] = 0
    /\ IF stream.state = "open"
            THEN /\ stream' = Enqueue(stream, Progress(80))
                 /\ downloadId' = id
                 /\ rpc' = "archive"
            ELSE /\ Aborts
                 /\ UNCHANGED <<downloadId>>
    /\ UNCHANGED <<cleanUrl, vaultId, crawlDelay, archiveBuffer, counters>>
    /\ UNCHANGED crawlVars
    /\ UNCHANGED storeVars
    /\ UNCHANGED getVars
    /\ UNCHANGED robotsVars
    /\ UNCHANGED gateVars
    /\ UNCHANGED rateVars
    /\ UNCHANGED reportVars
    /\ UNCHANGED buildVars
    /\ UNCHANGED paceVars

\* lines 278-289: an empty vault throws; else progress 80 and a new id
AfterCrawl(id) ==
    /\ rpc = "crawled"
    /\ downloads[id] = NoEntry /\ served[id] = 0
    /\ IF Len(vaultData) = 0
       THEN /\ Catches
            /\ UNCHANGED <<downloadId>>
       ELSE IF stream.state = "open"
            THEN /\ stream' = Enqueue(stream, Progress(80))
                 /\ downloadId' = id
                 /\ rpc' = "archive"
            ELSE /\ Aborts
                 /\ UNCHANGED <<downloadId>>
    /\ UNCHANGED <<cleanUrl, vaultId, crawlDelay, archiveBuffer, counters>>
    /\ UNCHANGED crawlVars
    /\ UNCHANGED storeVars
    /\ UNCHANGED getVars
    /\ UNCHANGED robotsVars
    /\ UNCHANGED gateVars
    /\ UNCHANGED rateVars
    /\ UNCHANGED reportVars
    /\ UNCHANGED buildVars
    /\ UNCHANGED paceVars

\* A run that stores what the archiver had written when it failed.
CreateArchivePartly(ok) ==
    /\ rpc = "archive"
    /\ IF FALSE
       THEN /\ Catches
            /\ UNCHANGED <<archiveBuffer>>
       ELSE /\ archiveBuffer' = IF ok THEN createArchive(vaultData, vaultId)
                                 ELSE [createArchive(vaultData, vaultId)
                                           EXCEPT !.entries = SubSeq(@, 1, 2)]
            /\ IF stream.state = "open"
               THEN /\ stream' = Enqueue(stream, Progress(95))
                    /\ rpc' = "store"
               ELSE Aborts
    /\ UNCHANGED <<cleanUrl, vaultId, crawlDelay, downloadId, counters>>
    /\ UNCHANGED crawlVars
    /\ UNCHANGED storeVars
    /\ UNCHANGED getVars
    /\ UNCHANGED robotsVars
    /\ UNCHANGED gateVars
    /\ UNCHANGED rateVars
    /\ UNCHANGED reportVars
    /\ UNCHANGED buildVars
    /\ UNCHANGED paceVars

\* lines 290-296: the archive is built, or the archiver reports an error
CreateArchive(ok) ==
    /\ rpc = "archive"
    /\ IF ~ok
       THEN /\ Catches
            /\ UNCHANGED <<archiveBuffer>>
       ELSE /\ archiveBuffer' = createArchive(vaultData, vaultId)
            /\ IF stream.state = "open"
               THEN /\ stream' = Enqueue(stream, Progress(95))
                    /\ rpc' = "store"
               ELSE Aborts
    /\ UNCHANGED <<cleanUrl, vaultId, crawlDelay, downloadId, counters>>
    /\ UNCHANGED crawlVars
    /\ UNCHANGED storeVars
    /\ UNCHANGED getVars
    /\ UNCHANGED robotsVars
    /\ UNCHANGED gateVars
    /\ UNCHANGED rateVars
    /\ UNCHANGED reportVars
    /\ UNCHANGED buildVars
    /\ UNCHANGED paceVars

\* A run that goes on without its archive when the store call fails.
StoreArchiveSilently(ok) ==
    /\ rpc = "store"
    /\ ok => redisConfigured
    /\ downloads' = IF ok THEN RedisSetex(downloadId, ttlSeconds, ToBase64(archiveBuffer))
                  ELSE downloads
    /\ rpc' = "count"
    /\ UNCHANGED <<stream>>
    /\ UNCHANGED <<now>>
    /\ UNCHANGED runData
    /\ UNCHANGED crawlVars
    /\ UNCHANGED getVars
    /\ UNCHANGED robotsVars
    /\ UNCHANGED gateVars
    /\ UNCHANGED rateVars
    /\ UNCHANGED reportVars
    /\ UNCHANGED buildVars
    /\ UNCHANGED paceVars

\* A store call that sets no time to live.
StoreArchiveExpiring(ok) ==
    /\ rpc = "store"
    /\ ok => redisConfigured
    /\ IF ~ok
       THEN /\ Catches
            /\ UNCHANGED <<downloads>>
       ELSE /\ downloads' = RedisSetex(downloadId, 0, ToBase64(archiveBuffer))
            /\ rpc' = "count"
            /\ UNCHANGED <<stream>>
    /\ UNCHANGED <<now>>
    /\ UNCHANGED runData
    /\ UNCHANGED crawlVars
    /\ UNCHANGED getVars
    /\ UNCHANGED robotsVars
    /\ UNCHANGED gateVars
    /\ UNCHANGED rateVars
    /\ UNCHANGED reportVars
    /\ UNCHANGED buildVars
    /\ UNCHANGED paceVars

\* lines 298-303: redis.setex stores the archive, or throws (redis is null,
\* or the store cannot be reached)
StoreArchive(ok) ==
    /\ rpc = "store"
    /\ ok => redisConfigured
    /\ IF ~ok
       THEN /\ Catches
            /\ UNCHANGED <<downloads>>
       ELSE /\ downloads' = RedisSetex(downloadId, ttlSeconds, ToBase64(archiveBuffer))
            /\ rpc' = "count"
            /\ UNCHANGED <<stream>>
    /\ UNCHANGED <<now>>
    /\ UNCHANGED runData
    /\ UNCHANGED crawlVars
    /\ UNCHANGED getVars
    /\ UNCHANGED robotsVars
    /\ UNCHANGED gateVars
    /\ UNCHANGED rateVars
    /\ UNCHANGED reportVars
    /\ UNCHANGED buildVars
    /\ UNCHANGED paceVars

\* lines 305-331: the counters, progress 100, the complete event, close
IncrementCount(failAt) ==
    /\ rpc = "count"
    /\ counters' = incrementDownloadCount(counters, vaultId, failAt)
    /\ IF stream.state = "open"
       THEN /\ stream' = Close(Enqueue(Enqueue(stream, Progress(100)), Complete))
            /\ rpc' = "closed"
       ELSE Aborts
    /\ UNCHANGED <<cleanUrl, vaultId, crawlDelay, archiveBuffer, downloadId>>
    /\ UNCHANGED crawlVars
    /\ UNCHANGED storeVars
    /\ UNCHANGED getVars
    /\ UNCHANGED robotsVars
    /\ UNCHANGED gateVars
    /\ UNCHANGED rateVars
    /\ UNCHANGED reportVars
    /\ UNCHANGED buildVars
    /\ UNCHANGED paceVars

RunIdle ==
    /\ web = "tiny"
    /\ rpc = "idle"
    /\ cleanUrl = RootUrl
    /\ vaultId = "vault-a"
    /\ crawlDelay = 1000
    /\ stream = NoStream
    /\ visited = {}
    /\ toVisit = <<>>
    /\ pageCount = 0
    /\ iterations = 0
    /\ currentUrl = RootUrl
    /\ vaultData = <<>>
    /\ archiveBuffer = NoArchive
    /\ downloadId = "none"
    /\ counters = NoCounters

\* start() of the stream is entered: the request passed every check
CrawlInit ==
    /\ web \in {"small", "chain"}
    /\ rpc = "stream"
    /\ cleanUrl = RootUrl
    /\ vaultId = "vault-a"
    /\ crawlDelay = 1000
    /\ stream = OpenStream
    /\ visited = {}
    /\ toVisit = <<>>
    /\ pageCount = 0
    /\ iterations = 0
    /\ currentUrl = RootUrl
    /\ vaultData = <<>>
    /\ archiveBuffer = NoArchive
    /\ downloadId = "none"
    /\ counters = NoCounters

\* start() is entered for a site of two pages
ModeratedInit ==
    /\ web = "tiny"
    /\ rpc = "stream"
    /\ cleanUrl = RootUrl
    /\ vaultId = "vault-a"
    /\ crawlDelay = 1000
    /\ stream = OpenStream
    /\ visited = {}
    /\ toVisit = <<>>
    /\ pageCount = 0
    /\ iterations = 0
    /\ currentUrl = RootUrl
    /\ vaultData = <<>>
    /\ archiveBuffer = NoArchive
    /\ downloadId = "none"
    /\ counters = NoCounters

\* start() is entered for a site whose pages have look-alike names
NamesInit ==
    /\ web = "names"
    /\ rpc = "stream"
    /\ cleanUrl \in {RootUrl, ReadmeUrl}
    /\ vaultId = cleanUrl.path[1]
    /\ crawlDelay = 1000
    /\ stream = OpenStream
    /\ visited = {}
    /\ toVisit = <<>>
    /\ pageCount = 0
    /\ iterations = 0
    /\ currentUrl = cleanUrl
    /\ vaultData = <<>>
    /\ archiveBuffer = NoArchive
    /\ downloadId = "none"
    /\ counters = NoCounters

---------------------------------------------------------------------------
(* The checks of a download request: route.ts 210-257, utils.ts 43-102 *)

NullUrl == Url("null", <<>>)

NoRequest == [url |-> NullUrl, consent |-> FALSE, ip |-> "none", timestamp |-> 0]

\* A body that requestSchema.parse rejects (lines 17-21, 214): its url is
\* a string that is no URL
Malformed == [url |-> Url("", <<"not a url">>), consent |-> TRUE, ip |-> "ip1", timestamp |-> 0]

\* The URLs callers ask for: a vault root, with and without a fragment and
\* a query, a page of another vault, the bare host, the path "//" and a
\* vault path on another host
RequestUrls ==
    { RootUrl,
      [RootUrl EXCEPT !.hash = "#top", !.search = "?q=1"],
      Url(PublishHost, <<"vault-b", "x">>),
      Url(PublishHost, <<>>),
      Url(PublishHost, <<"">>),
      Url("other.example", <<"vault-a">>) }

Bodies ==
    { Malformed } \cup
    { [url |-> u, consent |-> c, ip |-> i, timestamp |-> now] :
          u \in RequestUrls, c \in BOOLEAN, i \in Identities }

\* route.ts 31-53
validateAndCleanUrl(url) ==
    IF url.host # PublishHost THEN NullUrl
    ELSE IF url.path = <<>> THEN NullUrl
    ELSE [url EXCEPT !.hash = "", !.search = ""]

\* utils.ts 43-51: the first non-empty part of the path, or ''
extractVaultId(url) ==
    LET pathParts == SelectSeq(url.path, LAMBDA part : part # "")
    IN  IF pathParts = <<>> THEN "" ELSE pathParts[1]

Answer(status, error) == [status |-> status, error |-> error]

\* POST has not returned
NoAnswer == Answer(0, "none")

\* lines 335-341: the stream is the body of the response
Streaming == Answer(200, "none")

\* redis.sismember('blocked_vaults', id): 1 or 0, unless the call throws
SismemberResult(id, throws) ==
    IF throws THEN "throws" ELSE IF id \in blocked_vaults THEN "1" ELSE "0"

\* utils.ts 59-72: false without Redis, and false when sismember throws
isVaultBlocked(id, throws) ==
    IF ~redisConfigured THEN FALSE
    ELSE IF throws THEN FALSE
    ELSE id \in blocked_vaults

\* A request handler that does not ask for consent.
ReceiveWithoutConsent(body) ==
    /\ rpc = "idle"
    /\ request = NoRequest
    /\ request' = body
    /\ LET clean == validateAndCleanUrl(body.url) IN
         IF body = Malformed \/ clean = NullUrl \/ extractVaultId(clean) = ""
         THEN /\ response' = Answer(400, "Invalid request")
              /\ rpc' = "rejected"
              /\ UNCHANGED <<cleanUrl, vaultId>>
         ELSE /\ cleanUrl' = clean
              /\ vaultId' = extractVaultId(clean)
              /\ rpc' = "blocked"
              /\ UNCHANGED <<response>>
    /\ UNCHANGED <<crawlDelay, archiveBuffer, downloadId, counters>>
    /\ UNCHANGED <<blocked_vaults, sismembers, consent_keys, consent_log, fetches>>
    /\ UNCHANGED crawlVars
    /\ UNCHANGED <<stream>>
    /\ UNCHANGED storeVars
    /\ UNCHANGED getVars
    /\ UNCHANGED robotsVars
    /\ UNCHANGED rateVars
    /\ UNCHANGED reportVars
    /\ UNCHANGED buildVars
    /\ UNCHANGED paceVars

\* lines 213-229: the body is parsed, consent, URL and vault id are checked
Receive(body) ==
    /\ rpc = "idle"
    /\ request = NoRequest
    /\ request' = body
    /\ LET clean == validateAndCleanUrl(body.url) IN
         IF body = Malformed
         THEN /\ response' = Answer(400, "Invalid request")
              /\ rpc' = "rejected"
              /\ UNCHANGED <<cleanUrl, vaultId>>
         ELSE IF ~body.consent
         THEN /\ response' = Answer(400, "Consent required")
              /\ rpc' = "rejected"
              /\ UNCHANGED <<cleanUrl, vaultId>>
         ELSE IF clean = NullUrl
         THEN /\ response' = Answer(400, "Invalid Obsidian Publish URL")
              /\ rpc' = "rejected"
              /\ UNCHANGED <<cleanUrl, vaultId>>
         ELSE IF extractVaultId(clean) = ""
         THEN /\ response' = Answer(400, "Could not extract vault ID")
              /\ rpc' = "rejected"
              /\ UNCHANGED <<cleanUrl, vaultId>>
         ELSE /\ cleanUrl' = clean
              /\ vaultId' = extractVaultId(clean)
              /\ rpc' = "blocked"
              /\ UNCHANGED <<response>>
    /\ UNCHANGED <<crawlDelay, archiveBuffer, downloadId, counters>>
    /\ UNCHANGED <<blocked_vaults, sismembers, consent_keys, consent_log, fetches>>
    /\ UNCHANGED crawlVars
    /\ UNCHANGED <<stream>>
    /\ UNCHANGED storeVars
    /\ UNCHANGED getVars
    /\ UNCHANGED robotsVars
    /\ UNCHANGED rateVars
    /\ UNCHANGED reportVars
    /\ UNCHANGED buildVars
    /\ UNCHANGED paceVars

\* lines 231-236: the blocked set is asked
CheckBlocked(throws) ==
    /\ rpc = "blocked"
    /\ throws => redisConfigured
    /\ IF isVaultBlocked(vaultId, throws)
       THEN /\ response' = Answer(403, "This vault has been blocked by the owner")
            /\ rpc' = "rejected"
       ELSE /\ rpc' = "limit"
            /\ UNCHANGED <<response>>
    /\ UNCHANGED runData
    /\ sismembers' = IF redisConfigured
                     THEN Append(sismembers, [member |-> vaultId,
                                              result |-> SismemberResult(vaultId, throws)])
                     ELSE sismembers
    /\ UNCHANGED <<request, blocked_vaults, consent_keys, consent_log, fetches>>
    /\ UNCHANGED crawlVars
    /\ UNCHANGED <<stream>>
    /\ UNCHANGED storeVars
    /\ UNCHANGED getVars
    /\ UNCHANGED robotsVars
    /\ UNCHANGED rateVars
    /\ UNCHANGED reportVars
    /\ UNCHANGED buildVars
    /\ UNCHANGED paceVars

\* lines 238-246: the limiter is asked for the caller's address
RateLimit ==
    /\ rpc = "limit"
    /\ LimitCall(request.ip)
    /\ IF LimitSuccess(request.ip)
       THEN /\ rpc' = "consent"
            /\ UNCHANGED <<response>>
       ELSE /\ response' = Answer(429, "Rate limit exceeded. Please try again later.")
            /\ rpc' = "rejected"
    /\ UNCHANGED <<redisConfigured>>
    /\ UNCHANGED runData
    /\ UNCHANGED <<request, blocked_vaults, sismembers, consent_keys, consent_log, fetches>>
    /\ UNCHANGED crawlVars
    /\ UNCHANGED <<stream>>
    /\ UNCHANGED storeVars
    /\ UNCHANGED getVars
    /\ UNCHANGED robotsVars
    /\ UNCHANGED reportVars
    /\ UNCHANGED buildVars
    /\ UNCHANGED paceVars

\* utils.ts 87: consent keys are kept for 30 days
consentTtlSeconds == 30 * 24 * 60 * 60

\* utils.ts 96: the consent list keeps its 10000 newest entries
consentLogLength == 10000

ConsentEntry ==
    [ip |-> request.ip, url |-> cleanUrl, vaultId |-> vaultId,
     timestamp |-> request.timestamp]

ConsentFailPoints == {"none", "setex", "lpush", "ltrim"}

\* utils.ts 75-102: the writes made before the call that throws (failAt),
\* all of them when none throws; nothing without Redis
ConsentKeysAfter(failAt) ==
    IF ~redisConfigured \/ failAt = "setex" THEN consent_keys
    ELSE consent_keys \cup
         { [vaultId |-> vaultId, time |-> now, data |-> ConsentEntry,
            expiresAt |-> now + consentTtlSeconds] }

ConsentLogAfter(failAt) ==
    IF ~redisConfigured \/ failAt \in {"setex", "lpush"} THEN consent_log
    ELSE LET pushed == <<ConsentEntry>> \o consent_log
         IN  IF failAt = "ltrim" THEN pushed
             ELSE SubSeq(pushed, 1, Min(Len(pushed), consentLogLength))

\* A consent log whose store failure ends the request.
LogConsentThrows(failAt) ==
    /\ rpc = "consent"
    /\ failAt # "none" => redisConfigured
    /\ consent_keys' = ConsentKeysAfter(failAt)
    /\ consent_log' = ConsentLogAfter(failAt)
    /\ IF failAt = "none"
       THEN /\ rpc' = "robots"
            /\ UNCHANGED <<response>>
       ELSE /\ rpc' = "rejected"
            /\ response' = Answer(400, "Invalid request")
    /\ UNCHANGED runData
    /\ UNCHANGED <<request, blocked_vaults, sismembers, fetches>>
    /\ UNCHANGED crawlVars
    /\ UNCHANGED <<stream>>
    /\ UNCHANGED storeVars
    /\ UNCHANGED getVars
    /\ UNCHANGED robotsVars
    /\ UNCHANGED rateVars
    /\ UNCHANGED reportVars
    /\ UNCHANGED buildVars
    /\ UNCHANGED paceVars

\* line 249: logConsent never throws, the request goes on
LogConsent(failAt) ==
    /\ rpc = "consent"
    /\ failAt # "none" => redisConfigured
    /\ consent_keys' = ConsentKeysAfter(failAt)
    /\ consent_log' = ConsentLogAfter(failAt)
    /\ rpc' = "robots"
    /\ UNCHANGED runData
    /\ UNCHANGED <<request, response, blocked_vaults, sismembers, fetches>>
    /\ UNCHANGED crawlVars
    /\ UNCHANGED <<stream>>
    /\ UNCHANGED storeVars
    /\ UNCHANGED getVars
    /\ UNCHANGED robotsVars
    /\ UNCHANGED rateVars
    /\ UNCHANGED reportVars
    /\ UNCHANGED buildVars
    /\ UNCHANGED paceVars

\* A request handler that opens the stream whatever robots.txt says.
RunRobotsIgnoresPolicy ==
    /\ rpc = "robots"
    /\ robotsResult' = checkRobotsAdvanced(robotsResponse)
    /\ Sent("robots", robotsResponse.status = "ok")
    /\ crawlDelay' = robotsResult'.crawlDelay
    /\ stream' = OpenStream
    /\ response' = Streaming
    /\ rpc' = "stream"
    /\ UNCHANGED <<cleanUrl, vaultId, archiveBuffer, downloadId, counters>>
    /\ UNCHANGED <<request, blocked_vaults, sismembers, consent_keys, consent_log>>
    /\ UNCHANGED <<robotsResponse>>
    /\ UNCHANGED crawlVars
    /\ UNCHANGED storeVars
    /\ UNCHANGED getVars
    /\ UNCHANGED rateVars
    /\ UNCHANGED reportVars
    /\ UNCHANGED buildVars

\* lines 251-341: robots.txt of the site is fetched and evaluated; a site
\* that allows the crawl gets the stream as the response, and start() runs
RunRobots ==
    /\ rpc = "robots"
    /\ robotsResult' = checkRobotsAdvanced(robotsResponse)
    /\ Sent("robots", robotsResponse.status = "ok")
    /\ IF robotsResult'.allowed
       THEN /\ crawlDelay' = robotsResult'.crawlDelay
            /\ stream' = OpenStream
            /\ response' = Streaming
            /\ rpc' = "stream"
       ELSE /\ response' = Answer(403, "This vault disallows crawling via robots.txt")
            /\ rpc' = "rejected"
            /\ UNCHANGED <<crawlDelay, stream>>
    /\ UNCHANGED <<cleanUrl, vaultId, archiveBuffer, downloadId, counters>>
    /\ UNCHANGED <<request, blocked_vaults, sismembers, consent_keys, consent_log>>
    /\ UNCHANGED <<robotsResponse>>
    /\ UNCHANGED crawlVars
    /\ UNCHANGED storeVars
    /\ UNCHANGED getVars
    /\ UNCHANGED rateVars
    /\ UNCHANGED reportVars
    /\ UNCHANGED buildVars

GateIdle ==
    /\ request = NoRequest
    /\ response = NoAnswer
    /\ blocked_vaults = {}
    /\ sismembers = <<>>
    /\ consent_keys = {}
    /\ consent_log = <<>>
    /\ fetches = 0

\* robots.txt answers a run may meet
RunRobotsResponses ==
    { [status |-> "throws", text |-> <<>>],
      [status |-> "notok", text |-> <<>>],
      [status |-> "ok", text |-> <<>>],
      [status |-> "ok", text |-> << <<"User-agent", ":", " ", "*">>,
                                    <<"Disallow", ":", " ", "/">> >>],
      [status |-> "ok", text |-> << <<"#", " ", "sitemap">>,
                                    <<"user-agent", ":", "*">>,
                                    <<" ", "DISALLOW", ":", "/", " ">> >>],
      [status |-> "ok", text |-> << <<"User-agent", ":", " ", "*">>,
                                    <<"Crawl-delay", ":", " ", "2">> >>] }

\* The limiter state five admitted requests of one caller leave behind
FullQuota == [k \in 1..rateQuota |-> 0]

\* A download request arrives at a server that has blocked some vaults and
\* has admitted earlier requests of the first caller.
GateInit ==
    /\ request = NoRequest
    /\ response = NoAnswer
    /\ redisConfigured \in BOOLEAN
    /\ blocked_vaults \in IF redisConfigured THEN SUBSET VaultIds ELSE { {} }
    /\ sismembers = <<>>
    /\ consent_keys = {}
    /\ consent_log = <<>>
    /\ fetches = 0
    /\ robotsResponse \in RunRobotsResponses
    /\ robotsResult = NoResult
    /\ rateHits \in IF redisConfigured
                    THEN { [ip \in Identities |-> <<>>],
                           [ip \in Identities |-> IF ip = "ip1" THEN FullQuota ELSE <<>>] }
                    ELSE { [ip \in Identities |-> <<>>] }
    /\ limitLog = [ip \in Identities |-> <<>>]

\* What the checks of an admitted request for the vault root leave behind
\* when no store call has failed.
PassedChecks ==
    /\ request = [url |-> RootUrl, consent |-> TRUE, ip |-> "ip1", timestamp |-> 0]
    /\ response = Streaming
    /\ redisConfigured \in BOOLEAN
    /\ blocked_vaults = {}
    /\ sismembers = IF redisConfigured
                    THEN << [member |-> "vault-a", result |-> "0"] >>
                    ELSE <<>>
    /\ consent_keys = IF redisConfigured
                      THEN { [vaultId |-> "vault-a", time |-> 0,
                              data |-> [ip |-> "ip1", url |-> RootUrl, vaultId |-> "vault-a",
                                       timestamp |-> 0],
                              expiresAt |-> consentTtlSeconds] }
                      ELSE {}
    /\ consent_log = IF redisConfigured
                     THEN << [ip |-> "ip1", url |-> RootUrl, vaultId |-> "vault-a",
                               timestamp |-> 0] >>
                     ELSE <<>>
    /\ fetches = 1
    /\ robotsResponse = [status |-> "throws", text |-> <<>>]
    /\ robotsResult = [allowed |-> TRUE, crawlDelay |-> 1000]
    /\ rateHits = [ip \in Identities |->
                      IF redisConfigured /\ ip = "ip1" THEN <<0>> ELSE <<>>]
    /\ limitLog = [ip \in Identities |->
                      IF ip = "ip1" THEN << [time |-> 0, success |-> TRUE] >> ELSE <<>>]

\* What the checks of the admitted request for cleanUrl leave behind when no
\* store call has failed.
NamesChecks ==
    /\ request = [url |-> cleanUrl, consent |-> TRUE, ip |-> "ip1", timestamp |-> 0]
    /\ response = Streaming
    /\ redisConfigured \in BOOLEAN
    /\ blocked_vaults = {}
    /\ sismembers = IF redisConfigured
                    THEN << [member |-> vaultId, result |-> "0"] >>
                    ELSE <<>>
    /\ consent_keys = IF redisConfigured
                      THEN { [vaultId |-> vaultId, time |-> 0,
                              data |-> [ip |-> "ip1", url |-> cleanUrl, vaultId |-> vaultId,
                                       timestamp |-> 0],
                              expiresAt |-> consentTtlSeconds] }
                      ELSE {}
    /\ consent_log = IF redisConfigured
                     THEN << [ip |-> "ip1", url |-> cleanUrl, vaultId |-> vaultId,
                               timestamp |-> 0] >>
                     ELSE <<>>
    /\ fetches = 1
    /\ robotsResponse = [status |-> "throws", text |-> <<>>]
    /\ robotsResult = [allowed |-> TRUE, crawlDelay |-> 1000]
    /\ rateHits = [ip \in Identities |->
                      IF redisConfigured /\ ip = "ip1" THEN <<0>> ELSE <<>>]
    /\ limitLog = [ip \in Identities |->
                      IF ip = "ip1" THEN << [time |-> 0, success |-> TRUE] >> ELSE <<>>]

---------------------------------------------------------------------------
(* The report route: POST of api/report, part_000 152-202 *)

\* reports filed in one behaviour
MaxReports == 1

\* seconds that pass in one behaviour of the report route
MaxReportTicks == 1

ReportReasons == {"owner", "copyright"}

\* The vault URLs reports name: the schema takes a URL of any host
ReportUrls ==
    { RootUrl,
      Url(PublishHost, <<>>),
      Url("other.example", <<"vault-a">>) }

\* A body that reportSchema.parse rejects (lines 5-11, 155)
MalformedReport == [vaultUrl |-> Url("", <<"not a url">>), reason |-> "owner"]

Reports ==
    { MalformedReport } \cup
    { [vaultUrl |-> u, reason |-> r] : u \in ReportUrls, r \in ReportReasons }

\* The store call of the report route that throws, if any
ReportFailPoints == {"none", "sadd", "hset", "pending"}

\* redis is null without its environment variables (utils.ts 13-18): the
\* first call on it throws
FirstCallThrows(data, failAt) ==
    \/ ~redisConfigured
    \/ failAt = (IF data.reason = "owner" THEN "sadd" ELSE "hset")

ReportId == Len(reportLog) + 1

\* One report is handled: parsed (155), its vault id taken (157-162), the
\* vault blocked for an owner (165-167), the report stored (170-180), and
\* 500 answered when a store call throws (198-200).
Report(data, failAt) ==
    /\ Len(reportLog) < MaxReports
    /\ failAt # "none" => redisConfigured
    /\ failAt = "sadd" => data.reason = "owner"
    /\ LET id == extractVaultId(data.vaultUrl)
           status == IF data = MalformedReport \/ id = "" THEN 400
                     ELSE IF ~redisConfigured \/ failAt # "none" THEN 500
                     ELSE 200
           blocks == /\ status # 400
                     /\ data.reason = "owner"
                     /\ ~FirstCallThrows(data, failAt)
           stores == status # 400 /\ redisConfigured /\ failAt \in {"none", "pending"}
       IN  /\ blocked_vaults' = IF blocks THEN blocked_vaults \cup {id} ELSE blocked_vaults
           /\ reports' = IF stores
                         THEN reports \cup { [id |-> ReportId, vaultId |-> id,
                                              reason |-> data.reason, timestamp |-> now,
                                              status |-> "pending"] }
                         ELSE reports
           /\ pending_reports' = IF status = 200
                                 THEN pending_reports \cup {ReportId}
                                 ELSE pending_reports
           /\ reportLog' = Append(reportLog, [vaultId |-> id, reason |-> data.reason,
                                              status |-> status, time |-> now])
    /\ UNCHANGED <<request, response, sismembers, consent_keys, consent_log, fetches>>
    /\ UNCHANGED runAllVars
    /\ UNCHANGED storeVars
    /\ UNCHANGED getVars
    /\ UNCHANGED robotsVars
    /\ UNCHANGED rateVars
    /\ UNCHANGED buildVars
    /\ UNCHANGED paceVars

\* A second passes.
ReportTick ==
    /\ now < MaxReportTicks
    /\ now' = now + 1
    /\ UNCHANGED <<downloads>>
    /\ UNCHANGED getVars
    /\ UNCHANGED robotsVars
    /\ UNCHANGED gateVars
    /\ UNCHANGED rateVars
    /\ UNCHANGED runAllVars
    /\ UNCHANGED reportVars
    /\ UNCHANGED buildVars
    /\ UNCHANGED paceVars

\* The download requests that follow a report: consenting requests for
\* pages of two vaults
FollowingBodies ==
    { [url |-> u, consent |-> TRUE, ip |-> "ip1", timestamp |-> now] :
          u \in { RootUrl,
                  [RootUrl EXCEPT !.hash = "#top", !.search = "?q=1"],
                  Url(PublishHost, <<"vault-b", "x">>) } }

\* A server that has blocked no vault and admitted no request
FreshGate ==
    /\ request = NoRequest
    /\ response = NoAnswer
    /\ redisConfigured \in BOOLEAN
    /\ blocked_vaults = {}
    /\ sismembers = <<>>
    /\ consent_keys = {}
    /\ consent_log = <<>>
    /\ fetches = 0
    /\ robotsResponse = [status |-> "throws", text |-> <<>>]
    /\ robotsResult = NoResult
    /\ rateHits = [ip \in Identities |-> <<>>]
    /\ limitLog = [ip \in Identities |-> <<>>]

ReportIdle ==
    /\ reports = {}
    /\ pending_reports = {}
    /\ reportLog = <<>>

---------------------------------------------------------------------------
(* The archive builder on its own: createArchive, route.ts 431-507 *)

\* calls of createArchive in one behaviour
MaxBuilds == 2
\* seconds that pass in one behaviour
MaxBuildTicks == 2

\* The record fetchVaultData keeps for a page (lines 387-397)
PageRecord(url, content) ==
    [path |-> FileName(url), content |-> content, title |-> "Untitled",
     url |-> url, crawledAt |-> 0]

\* What a crawl of the vault may collect: its root alone, or the root and a
\* page, in either order of insertion
BuildInputs ==
    { << PageRecord(RootUrl, "Hello") >>,
      << PageRecord(RootUrl, "Hello"), PageRecord(FreshUrl(1), "") >>,
      << PageRecord(FreshUrl(1), ""), PageRecord(RootUrl, "Hello") >> }

\* crawledAt: new Date().toISOString() at the time of the crawl (line 394)
Stamp(data, time) == [k \in 1..Len(data) |-> [data[k] EXCEPT !.crawledAt = time]]

\* A crawl hands its pages over.
Recrawl(data) ==
    /\ vaultData' = Stamp(data, now)
    /\ UNCHANGED <<built>>
    /\ UNCHANGED <<web, visited, toVisit, pageCount, iterations, currentUrl>>
    /\ UNCHANGED runVars
    /\ UNCHANGED <<stream>>
    /\ UNCHANGED storeVars
    /\ UNCHANGED getVars
    /\ UNCHANGED robotsVars
    /\ UNCHANGED gateVars
    /\ UNCHANGED rateVars
    /\ UNCHANGED reportVars
    /\ UNCHANGED paceVars

\* createArchive(vaultData, vaultId) is called and resolves
Build ==
    /\ Len(built) < MaxBuilds
    /\ built' = Append(built, [data |-> vaultData, id |-> vaultId, at |-> now,
                               archive |-> createArchive(vaultData, vaultId)])
    /\ UNCHANGED runAllVars
    /\ UNCHANGED storeVars
    /\ UNCHANGED getVars
    /\ UNCHANGED robotsVars
    /\ UNCHANGED gateVars
    /\ UNCHANGED rateVars
    /\ UNCHANGED reportVars
    /\ UNCHANGED paceVars

\* A second passes.
BuildTick ==
    /\ now < MaxBuildTicks
    /\ now' = now + 1
    /\ UNCHANGED <<downloads>>
    /\ UNCHANGED <<built>>
    /\ UNCHANGED getVars
    /\ UNCHANGED robotsVars
    /\ UNCHANGED gateVars
    /\ UNCHANGED rateVars
    /\ UNCHANGED runAllVars
    /\ UNCHANGED reportVars
    /\ UNCHANGED paceVars

BuildIdle == built = <<>>

\* The pages of a crawl and the vault id are at hand
BuildInit ==
    /\ web = "tiny"
    /\ rpc = "archive"
    /\ cleanUrl = RootUrl
    /\ vaultId \in VaultIds
    /\ crawlDelay = 1000
    /\ stream = OpenStream
    /\ visited = {}
    /\ toVisit = <<>>
    /\ pageCount = 0
    /\ iterations = 0
    /\ currentUrl = RootUrl
    /\ vaultData \in BuildInputs
    /\ archiveBuffer = NoArchive
    /\ downloadId = "none"
    /\ counters = NoCounters
    /\ built = <<>>

---------------------------------------------------------------------------
(* Specifications *)

Init ==
    /\ StoreInit
    /\ GetInit
    /\ RobotsIdle
    /\ RateIdle
    /\ RunIdle
    /\ GateIdle
    /\ ReportIdle
    /\ BuildIdle
    /\ PaceIdle

\* Retrievals issued one after another: a request starts when none is in flight.
TakeSeqNext ==
    \/ \E id \in DownloadIds, b \in Archives : Put(id, b)
    \/ Tick
    \/ \E r \in 1..NumRequests, id \in DownloadIds : NoneInFlight /\ GetStart(r, id)
    \/ \E r \in 1..NumRequests : GetRead(r)
    \/ \E r \in 1..NumRequests : GetDel(r)
    \/ \E r \in 1..NumRequests : GetFail(r)
    \/ \E r \in 1..NumRequests : GetEnd(r)

SpecTakeSeq == Init /\ [][TakeSeqNext]_vars

\* Retrievals that run concurrently: the awaits of GET interleave.
TakeNext ==
    \/ \E id \in DownloadIds, b \in Archives : Put(id, b)
    \/ Tick
    \/ \E r \in 1..NumRequests, id \in DownloadIds : GetStart(r, id)
    \/ \E r \in 1..NumRequests : GetRead(r)
    \/ \E r \in 1..NumRequests : GetDel(r)
    \/ \E r \in 1..NumRequests : GetFail(r)
    \/ \E r \in 1..NumRequests : GetEnd(r)

SpecTake == Init /\ [][TakeNext]_vars

InitRobots ==
    /\ StoreInit
    /\ GetInit
    /\ RobotsInit
    /\ RateIdle
    /\ RunIdle
    /\ GateIdle
    /\ ReportIdle
    /\ BuildIdle
    /\ PaceIdle

SpecRobots == InitRobots /\ [][CheckRobots]_vars

InitRate ==
    /\ StoreInit
    /\ GetInit
    /\ RobotsIdle
    /\ RateInit
    /\ RunIdle
    /\ GateIdle
    /\ ReportIdle
    /\ BuildIdle
    /\ PaceIdle

RateNext ==
    \/ \E ip \in Identities : Limit(ip)
    \/ RateTick

SpecRate == InitRate /\ [][RateNext]_vars

InitCrawl ==
    /\ StoreInit
    /\ GetInit
    /\ CrawlInit
    /\ PassedChecks
    /\ ReportIdle
    /\ BuildIdle
    /\ waited = 0
    /\ lastFetch = [kind |-> "robots", page |-> 0, waited |-> 0, ok |-> FALSE]

\* The steps of the run itself
CrawlStep ==
    \/ StreamStart
    \/ LoopHead
    \/ Delay
    \/ \E pageData \in PageChoices : FetchPage(pageData)
    \/ \E anchors \in AnchorChoices(currentUrl) : FetchLinks(TRUE, anchors)
    \/ FetchLinks(FALSE, <<>>)
    \/ \E id \in DownloadIds : AfterCrawl(id)
    \/ \E ok \in BOOLEAN : CreateArchive(ok)
    \/ \E ok \in BOOLEAN : StoreArchive(ok)
    \/ \E failAt \in FailPoints : IncrementCount(failAt)

CrawlNext == CrawlStep \/ Disconnect

SpecCrawl == InitCrawl /\ [][CrawlNext]_vars

InitNames ==
    /\ StoreInit
    /\ GetInit
    /\ NamesInit
    /\ NamesChecks
    /\ ReportIdle
    /\ BuildIdle
    /\ waited = 0
    /\ lastFetch = [kind |-> "robots", page |-> 0, waited |-> 0, ok |-> FALSE]

\* The run over a site of look-alike names
SpecNames == InitNames /\ [][CrawlNext]_vars

\* Every await of the run settles: the fetches return or are aborted after
\* ten seconds (route.ts 127-128, 400-401), the delay is a timer, and the
\* store calls answer or throw. The caller need never disconnect.
SpecCrawlFair == SpecCrawl /\ WF_vars(CrawlStep)

InitRun ==
    /\ StoreInit
    /\ GetInit
    /\ RunIdle
    /\ GateInit
    /\ ReportIdle
    /\ BuildIdle
    /\ PaceIdle

RunNext ==
    \/ \E body \in Bodies : Receive(body)
    \/ \E throws \in BOOLEAN : CheckBlocked(throws)
    \/ RateLimit
    \/ \E failAt \in ConsentFailPoints : LogConsent(failAt)
    \/ RunRobots
    \/ StreamStart
    \/ LoopHead
    \/ Delay
    \/ \E pageData \in PageChoices : FetchPage(pageData)
    \/ \E anchors \in AnchorChoices(currentUrl) : FetchLinks(TRUE, anchors)
    \/ FetchLinks(FALSE, <<>>)
    \/ \E id \in DownloadIds : AfterCrawl(id)
    \/ \E ok \in BOOLEAN : CreateArchive(ok)
    \/ \E ok \in BOOLEAN : StoreArchive(ok)
    \/ \E failAt \in FailPoints : IncrementCount(failAt)
    \/ Disconnect

SpecRun == InitRun /\ [][RunNext]_vars

InitModerated ==
    /\ StoreInit
    /\ GetInit
    /\ ModeratedInit
    /\ PassedChecks
    /\ ReportIdle
    /\ BuildIdle
    /\ waited = 0
    /\ lastFetch = [kind |-> "robots", page |-> 0, waited |-> 0, ok |-> FALSE]

\* The run of an admitted request, while the report route handles reports
ModeratedNext ==
    \/ CrawlNext
    \/ \E data \in Reports, failAt \in ReportFailPoints : Report(data, failAt)

SpecModerated == InitModerated /\ [][ModeratedNext]_vars

InitReport ==
    /\ StoreInit
    /\ GetInit
    /\ RunIdle
    /\ FreshGate
    /\ ReportIdle
    /\ BuildIdle
    /\ PaceIdle

\* Reports and the checks of one download request, as time passes
ReportNext ==
    \/ \E data \in Reports, failAt \in ReportFailPoints : Report(data, failAt)
    \/ ReportTick
    \/ \E body \in FollowingBodies : Receive(body)
    \/ \E throws \in BOOLEAN : CheckBlocked(throws)
    \/ RateLimit
    \/ \E failAt \in ConsentFailPoints : LogConsent(failAt)
    \/ RunRobots

SpecReport == InitReport /\ [][ReportNext]_vars

\* The one page of the smallest vault: the text "Hello" under the default title
HelloPage == [content |-> "Hello", title |-> "Untitled"]

\* A server with its store configured, no vault blocked, no caller near the
\* quota, and a site whose robots.txt allows the crawl
InitScenario ==
    /\ StoreInit
    /\ GetInit
    /\ RunIdle
    /\ ReportIdle
    /\ BuildIdle
    /\ PaceIdle
    /\ request = NoRequest
    /\ response = NoAnswer
    /\ redisConfigured = TRUE
    /\ blocked_vaults = {}
    /\ sismembers = <<>>
    /\ consent_keys = {}
    /\ consent_log = <<>>
    /\ fetches = 0
    /\ robotsResponse \in { resp \in RunRobotsResponses : checkRobotsAdvanced(resp).allowed }
    /\ robotsResult = NoResult
    /\ rateHits = [ip \in Identities |-> <<>>]
    /\ limitLog = [ip \in Identities |-> <<>>]

\* One consenting request for the root of a vault of one page without links,
\* whose caller reads the stream to its end and then asks for the download id
\* it was handed, one retrieval after another, while the store answers.
ScenarioNext ==
    \/ \E ip \in Identities :
          Receive([url |-> RootUrl, consent |-> TRUE, ip |-> ip, timestamp |-> now])
    \/ CheckBlocked(FALSE)
    \/ RateLimit
    \/ \E failAt \in ConsentFailPoints : LogConsent(failAt)
    \/ RunRobots
    \/ StreamStart
    \/ LoopHead
    \/ FetchPage(HelloPage)
    \/ FetchLinks(TRUE, <<>>)
    \/ \E id \in DownloadIds : AfterCrawl(id)
    \/ CreateArchive(TRUE)
    \/ StoreArchive(TRUE)
    \/ \E failAt \in FailPoints : IncrementCount(failAt)
    \/ \E r \in 1..NumRequests :
          /\ stream.completes = 1
          /\ stream.downloadId \in DownloadIds
          /\ NoneInFlight
          /\ GetStart(r, stream.downloadId)
    \/ \E r \in 1..NumRequests : GetRead(r)
    \/ \E r \in 1..NumRequests : GetDel(r)
    \/ \E r \in 1..NumRequests : GetEnd(r)

SpecScenario == InitScenario /\ [][ScenarioNext]_vars

InitBuild ==
    /\ StoreInit
    /\ GetInit
    /\ RobotsIdle
    /\ RateIdle
    /\ GateIdle
    /\ ReportIdle
    /\ BuildInit
    /\ PaceIdle

\* The archive builder is run on the pages of one crawl after another
BuildNext ==
    \/ \E data \in BuildInputs : Recrawl(data)
    \/ Build
    \/ BuildTick

SpecBuild == InitBuild /\ [][BuildNext]_vars

---------------------------------------------------------------------------
(* Claims about the crawl and the progress stream *)

\* C3: in every state of a crawl run the number of visited URLs is at most
\* the page ceiling (500), whatever the link graph.
C3_VisitedWithinCeiling == Cardinality(visited) <= maxPages

\* On the endless site the crawl has stopped at the ceiling with a URL
\* still pending.
C3_Witness ==
    /\ rpc = "crawled"
    /\ Cardinality(visited) = maxPages
    /\ toVisit # <<>>

\* The run is inside fetchVaultData.
InCrawl == rpc \in {"stream", "loop", "delay", "fetchPage", "fetchLinks"}

\* C4: every crawl run ends after finitely many turns of its loop, whatever
\* the link graph, when every fetch returns or times out: every turn visits
\* a page not visited before, the loop takes at most maxPages turns, and
\* the run leaves fetchVaultData.
C4_CrawlTerminates ==
    /\ [](iterations = pageCount /\ iterations <= maxPages)
    /\ <>(~InCrawl)

\* The loop has ended on the endless site after maxPages turns, and on a
\* small site whose pages link back to visited ones.
C4_Witness ==
    /\ rpc = "crawled"
    /\ \/ web = "chain" /\ iterations = maxPages
       \/ web = "small" /\ iterations = 4 /\ toVisit = <<>>

\* The run is over: start() has returned or thrown.
RunOver == rpc \in {"closed", "aborted"}

\* C5 as stated: the progress stream of every run that is over holds
\* exactly one terminal event, complete or error, and nothing after it.
C5_Stated ==
    RunOver => stream.completes + stream.errors = 1 /\ ~stream.late

\* C5: no progress stream holds more than one terminal event or an event
\* after its terminal event; the stream of a run that is over holds exactly
\* one terminal event, complete or error, as its last event, unless the
\* caller cancelled the stream, and then it holds none.
C5_OneTerminalEvent ==
    /\ stream.completes + stream.errors <= 1
    /\ ~stream.late
    /\ stream.completes + stream.errors = 1 => stream.state = "closed" /\ RunOver
    /\ RunOver /\ stream.state # "cancelled" =>
           stream.state = "closed" /\ stream.completes + stream.errors = 1
    /\ RunOver /\ stream.state = "cancelled" => stream.completes + stream.errors = 0

\* A stream has ended with the error event after the crawl reported its
\* progress, and another with the complete event.
C5_Witness ==
    /\ stream.state = "closed"
    /\ stream.high >= 75
    /\ stream.errors = 1
    /\ stream.completes = 0

\* C6: within one run the values of successive progress events never
\* decrease, and every value lies in 0..100.
C6_ProgressMonotone ==
    /\ ~stream.decreased
    /\ stream.state # "none" /\ stream.last > 0 => stream.low >= 0 /\ stream.high <= 100

---------------------------------------------------------------------------
(* Claims about the checks of a download request *)

\* The request passed the checks of lines 213-229.
Validated ==
    /\ request # NoRequest
    /\ request # Malformed
    /\ request.consent
    /\ validateAndCleanUrl(request.url) # NullUrl
    /\ extractVaultId(validateAndCleanUrl(request.url)) # ""

RequestedVault == extractVaultId(validateAndCleanUrl(request.url))

NoLimiterCall == \A ip \in Identities : limitLog[ip] = <<>>

\* C10: a download request for a vault in the blocked set is answered with
\* the blocked error (403), also when robots.txt of the site allows the
\* crawl, and its handling makes no limiter call, writes no consent record
\* and sends no request to the site.
C10_BlockedRejected ==
    Validated /\ RequestedVault \in blocked_vaults /\ rpc # "blocked" =>
        /\ response = Answer(403, "This vault has been blocked by the owner")
        /\ NoLimiterCall
        /\ consent_keys = {} /\ consent_log = <<>>
        /\ fetches = 0

---------------------------------------------------------------------------
(* Claims about the artifact store *)

Finished(r) == gpc[r] = "done"

\* C1 as stated: of retrievals issued one after another for one download id,
\* at most one returns the archive, and every retrieval issued after the
\* successful one answers not-found.
C1_Stated ==
    /\ \A id \in DownloadIds : served[id] <= 1
    /\ \A r \in 1..NumRequests :
          Finished(r) /\ gafter[r] => gres[r] = NotFound

\* C1 as amended: of retrievals issued one after another for one download id,
\* at most one returns the archive; every retrieval issued after the
\* successful one returns no bytes: it answers not-found, or the 500
\* retrieval error when its store call throws. This holds whether or not the
\* TTL has elapsed.
C1_TakeOnceSequential ==
    /\ \A id \in DownloadIds : served[id] <= 1
    /\ \A r \in 1..NumRequests :
          Finished(r) /\ gafter[r] => gres[r] \in {NotFound, RetrievalError}
    /\ \A r \in 1..NumRequests :
          Finished(r) /\ gres[r] \notin {NotFound, RetrievalError}
              => gres[r] \in { Served(b) : b \in Archives } /\ downloads[gid[r]] = NoEntry

\* A second retrieval, made within the TTL of an id already served, has
\* answered not-found.
C1_Witness ==
    \E r \in 1..NumRequests :
        /\ Finished(r) /\ gafter[r] /\ gres[r] = NotFound
        /\ served[gid[r]] = 1
        /\ now < ttlSeconds

\* C2: of retrievals of one download id that run concurrently, at most one
\* returns the archive.
C2_ConcurrentTakeOnce == \A id \in DownloadIds : served[id] <= 1

---------------------------------------------------------------------------
(* Claims about the policy evaluator *)

\* What a line declares, read off the line itself: its field is its first
\* atom that is no blank, without regard to case; its value is what follows
\* the colon, blanks dropped.
NoBlanks(s) == SelectSeq(s, LAMBDA a : a # " ")
FieldOf(l) == IF NoBlanks(l) = <<>> THEN "" ELSE ToLowerCase(Head(NoBlanks(l)))
ValueOf(l) == IF Len(NoBlanks(l)) < 2 THEN <<>> ELSE SubSeq(NoBlanks(l), 3, Len(NoBlanks(l)))

IsAgentLine(l) == FieldOf(l) = "user-agent"
IsStarLine(l) == IsAgentLine(l) /\ ValueOf(l) = <<"*">>
IsDisallow(l, path) == FieldOf(l) = "disallow" /\ ValueOf(l) = path

\* The document holds a group `User-agent: *` (the agent line and the lines
\* under it, up to the next agent line) with a line `Disallow: <path>`.
StarGroupDisallows(d, path) ==
    \E i \in 1..Len(d), j \in 1..Len(d) :
        /\ i < j
        /\ IsStarLine(d[i])
        /\ IsDisallow(d[j], path)
        /\ \A k \in (i + 1)..(j - 1) : ~IsAgentLine(d[k])

Evaluated == robotsResult # NoResult /\ robotsResponse.status = "ok"

\* C7: for every policy document that holds a group `User-agent: *` with a
\* directive `Disallow: /`, the evaluator returns allowed = false.
C7_StarDisallowAllDenies ==
    Evaluated /\ StarGroupDisallows(robotsResponse.text, <<"/">>)
        => robotsResult.allowed = FALSE

\* Such a document has been evaluated and denied, the group being followed by
\* the group of another agent.
C7_Witness ==
    /\ Evaluated
    /\ StarGroupDisallows(robotsResponse.text, <<"/">>)
    /\ Len(robotsResponse.text) = 3
    /\ FieldOf(robotsResponse.text[3]) = "user-agent"
    /\ robotsResult.allowed = FALSE

\* C8: for a policy document whose group `User-agent: *` holds a `Disallow:`
\* with an empty path, and which holds no `Disallow: /`, the evaluator
\* returns allowed = true.
C8_EmptyDisallowAllows ==
    /\ Evaluated
    /\ StarGroupDisallows(robotsResponse.text, <<>>)
    /\ \A k \in 1..Len(robotsResponse.text) : ~IsDisallow(robotsResponse.text[k], <<"/">>)
    => robotsResult.allowed = TRUE

---------------------------------------------------------------------------
(* Claims about the rate limiter *)

\* Calls 1..k of one identity all fall within one window.
WithinOneWindow(log, k) == log[k].time - log[1].time < windowSeconds

\* Call k comes when the window has rolled over every earlier call.
RolledOver(log, k) == \A j \in 1..(k - 1) : log[k].time - log[j].time >= windowSeconds

\* Of the calls of one identity that fall within one window, the first 5 are
\* admitted and the 6th is denied; a call made once the window has rolled
\* over the earlier ones is admitted.
QuotaPerWindow(log) ==
    /\ \A k \in 1..Len(log) :
          k <= rateQuota /\ WithinOneWindow(log, k) => log[k].success
    /\ Len(log) > rateQuota /\ WithinOneWindow(log, rateQuota + 1)
          => ~log[rateQuota + 1].success
    /\ \A k \in 1..Len(log) : RolledOver(log, k) => log[k].success

---------------------------------------------------------------------------
(* Claims about whole download requests *)

\* robots.txt of the site holds a group for every agent that disallows
\* the whole site.
PolicyDisallowsAll ==
    /\ robotsResponse.status = "ok"
    /\ StarGroupDisallows(robotsResponse.text, <<"/">>)

PolicyDenied == Answer(403, "This vault disallows crawling via robots.txt")

NoArtifact == \A id \in DownloadIds : downloads[id] = NoEntry

\* C11: when robots.txt of the site disallows all agents, a download request
\* that reaches the policy check is answered with the policy error (403):
\* no page of the site is fetched (robots.txt is the only request sent), no
\* stream is opened and no archive is stored.
C11_PolicyDeniedBeforeFetch ==
    PolicyDisallowsAll =>
        /\ stream = NoStream
        /\ NoArtifact
        /\ visited = {} /\ pageCount = 0 /\ fetches <= 1
        /\ fetches = 1 => rpc = "rejected" /\ response = PolicyDenied

\* The request passed every earlier check and was denied by the policy.
C11_Witness ==
    /\ PolicyDisallowsAll
    /\ Validated
    /\ ~NoLimiterCall
    /\ fetches = 1
    /\ response = PolicyDenied

\* The request was received and fails a check of lines 213-229: its body
\* is malformed, consent is false, the URL is on another host or names
\* only the root path, or no vault id can be taken from it.
FailsValidation == request # NoRequest /\ ~Validated

\* C12: a download request without consent, or whose URL is not on the
\* Obsidian Publish host, has only the root path or yields an empty vault
\* id, is answered with a validation error (400) and goes no further: the
\* blocked set is not asked, the limiter is not called, no consent record
\* is written, no request is sent to the site, no stream is opened and no
\* archive is stored.
C12_ValidationRejects ==
    FailsValidation =>
        /\ rpc = "rejected"
        /\ response.status = 400
        /\ sismembers = <<>>
        /\ NoLimiterCall
        /\ consent_keys = {} /\ consent_log = <<>>
        /\ fetches = 0
        /\ stream = NoStream
        /\ NoArtifact

\* A request whose URL is the path "//" of the accepted host was rejected
\* for its empty vault id, at a server that has blocked a vault.
C12_Witness ==
    /\ request # Malformed
    /\ request.consent
    /\ request.url = Url(PublishHost, <<"">>)
    /\ response = Answer(400, "Could not extract vault ID")
    /\ redisConfigured
    /\ blocked_vaults # {}

\* The blocked-set lookup of the request threw.
LookupFailed == sismembers # <<>> /\ sismembers[Len(sismembers)].result = "throws"

\* C13: when the lookup of the blocked set fails with a store error, the
\* download request ends there with an error response, and no page of the
\* site is fetched.
C13_LookupFailureSurfaced ==
    LookupFailed =>
        /\ rpc = "rejected"
        /\ response.status >= 400
        /\ fetches = 0 /\ visited = {}

Blocked == Answer(403, "This vault has been blocked by the owner")

\* The k-th report said its sender owns the vault and was filed (200).
OwnerReportFiled(k) == reportLog[k].reason = "owner" /\ reportLog[k].status = 200

\* The download request is a valid one for the vault of the k-th report
\* and came in after that report, and the blocked check has been made.
CheckedAfterReport(k) ==
    /\ Validated
    /\ RequestedVault = reportLog[k].vaultId
    /\ request.timestamp > reportLog[k].time
    /\ rpc # "blocked"

\* C14: once an owner report for a vault has been filed, the vault is in
\* the blocked set with no review step, and every download request that
\* comes in later for a URL of that vault is answered with the blocked error
\* before anything is fetched.
C14_OwnerReportBlocks ==
    \A k \in 1..Len(reportLog) :
        OwnerReportFiled(k) =>
            /\ reportLog[k].vaultId \in blocked_vaults
            /\ CheckedAfterReport(k) =>
                   rpc = "rejected" /\ response = Blocked /\ fetches = 0

\* C15: a store failure while the consent is logged or the counters are
\* incremented never ends a run: whatever call of logConsent throws, the
\* request goes on to the robots.txt check with no response given; and
\* whatever call of incrementDownloadCount throws, the run enqueues progress
\* 100 and the complete event and closes the stream, as it does when no
\* call throws, and the stored archive stays as it is.
C15_LoggingFailuresAbsorbed ==
    [][ /\ rpc = "consent" /\ rpc' # rpc =>
              /\ rpc' = "robots"
              /\ response' = response
              /\ stream' = stream
              /\ downloads' = downloads
        /\ rpc = "count" /\ rpc' # rpc =>
              /\ downloads' = downloads
              /\ IF stream.state = "open"
                 THEN /\ stream' = Close(Enqueue(Enqueue(stream, Progress(100)), Complete))
                      /\ rpc' = "closed"
                 ELSE rpc' = "aborted" /\ stream' = stream
      ]_vars

\* The consent list and the daily counter were not written, for calls that
\* threw, and the run ended with the complete event and its archive stored.
C15_Witness ==
    /\ rpc = "closed"
    /\ consent_keys # {} /\ consent_log = <<>>
    /\ counters.total = 1 /\ counters.daily = 0
    /\ stream.completes = 1
    /\ downloads[downloadId] # NoEntry

\* The archive was built, the run is over and nothing was stored.
ArchiveNotStored ==
    /\ RunOver
    /\ archiveBuffer # NoArchive
    /\ NoArtifact

CancelledWhileCrawling ==
    /\ stream.state = "cancelled"
    /\ stream.cancelledAt.rpc \in {"stream", "loop", "delay", "fetchPage", "fetchLinks"}

\* The fetches the page in progress may still need: both of its fetches
\* when the first has not returned, the fetch for its links, or none when
\* the run stands between two pages.
FetchesLeft(position) ==
    CASE position \in {"delay", "fetchPage"} -> 2
      [] position = "fetchLinks" -> 1
      [] OTHER -> 0

\* C17: when the caller disconnects while the run is crawling, the run
\* fetches nothing but the page in progress, starts no other page (the next
\* turn of the loop ends the run before its fetch), and stores no archive.
C17_StopsAfterDisconnect ==
    CancelledWhileCrawling =>
        /\ fetches <= stream.cancelledAt.fetches + FetchesLeft(stream.cancelledAt.rpc)
        /\ pageCount <= stream.cancelledAt.pageCount + 1
        /\ pageCount > stream.cancelledAt.pageCount => rpc = "aborted"
        /\ rpc \in {"stream", "loop", "delay", "fetchPage", "fetchLinks", "aborted"}
        /\ archiveBuffer = NoArchive
        /\ NoArtifact

\* The caller left during the first fetch of the second page, with pages
\* pending; the run fetched that page twice and ended.
C17_Witness ==
    /\ CancelledWhileCrawling
    /\ stream.cancelledAt.rpc = "fetchPage"
    /\ stream.cancelledAt.pageCount = 2
    /\ fetches = stream.cancelledAt.fetches + 2
    /\ toVisit # <<>>
    /\ rpc = "aborted"

\* The names of the entries of an archive, in order
EntryNames(archive) == [k \in 1..Len(archive.entries) |-> archive.entries[k].name]

\* C18: a run on the root URL of a vault whose single page has the text
\* "Hello" and no links, on a server whose store answers and for a caller
\* that stays connected, ends with one complete event that carries
\* totalPages = 1 and no error event; the archive it stores holds the manifest
\* vault-metadata.json listing exactly that page, the index document
\* README.md and one page entry with the text; and of the retrievals of the
\* returned download id, made one after another within the TTL, the first
\* answers with that archive and every later one answers not-found.
C18_OnePageScenario ==
    /\ rpc = "closed" =>
          /\ stream.completes = 1 /\ stream.errors = 0
          /\ stream.totalPages = 1
          /\ stream.downloadId = downloadId
    /\ archiveBuffer # NoArchive =>
          /\ EntryNames(archiveBuffer)
                = <<"vault-metadata.json", "README.md", FileName(RootUrl)>>
          /\ archiveBuffer.entries[1].body.total_pages = 1
          /\ Len(archiveBuffer.entries[1].body.pages) = 1
          /\ archiveBuffer.entries[1].body.pages[1].path = FileName(RootUrl)
          /\ archiveBuffer.entries[2].body.pages = 1
          /\ archiveBuffer.entries[3].body.content = "Hello"
    /\ rpc \in {"count", "closed"} /\ served[downloadId] = 0 =>
          RedisGet(downloadId) = ToBase64(archiveBuffer)
    /\ \A r \in 1..NumRequests :
          Finished(r) =>
              gres[r] = IF gafter[r] THEN NotFound ELSE Served(archiveBuffer)

\* The run has ended with its complete event, and the caller has retrieved
\* the archive once and has been answered not-found the second time.
C18_Witness ==
    /\ rpc = "closed" /\ stream.completes = 1 /\ stream.totalPages = 1
    /\ served[downloadId] = 1
    /\ \E r1, r2 \in 1..NumRequests :
          /\ r1 # r2
          /\ gres[r1] = Served(archiveBuffer)
          /\ Finished(r2) /\ gafter[r2] /\ gres[r2] = NotFound

\* Two inputs of the builder that differ in their timestamps at most
SameButTimestamps(data1, data2) == Stamp(data1, 0) = Stamp(data2, 0)

\* An archive with every timestamp it embeds blanked: download_date and
\* crawled_at of the manifest, "Generated on" of the README, archived_at of
\* the page headers
WithoutTimestamps(archive) ==
    [comment |-> archive.comment,
     entries |->
        [k \in 1..Len(archive.entries) |->
            LET entry == archive.entries[k] IN
            IF k = 1
            THEN [entry EXCEPT !.body.download_date = 0,
                               !.body.pages = [j \in 1..Len(entry.body.pages) |->
                                   [entry.body.pages[j] EXCEPT !.crawled_at = 0]]]
            ELSE IF k = 2
            THEN [entry EXCEPT !.body.generated = 0]
            ELSE [entry EXCEPT !.body.archived_at = 0]]]

ReadsExpired(r) ==
    /\ gpc[r] = "get" /\ gpc'[r] # "get"
    /\ downloads[gid[r]] # NoEntry
    /\ now >= downloads[gid[r]].expiresAt

ReadsLive(r) ==
    /\ gpc[r] = "get" /\ gpc'[r] # "get"
    /\ downloads[gid[r]] # NoEntry
    /\ now < downloads[gid[r]].expiresAt

\* A stored archive leaves the store with the retrieval that serves it, and a
\* retrieval that reads the store before that and within the TTL is not
\* answered not-found.
RetrievableUntilTaken ==
    /\ [](\A id \in DownloadIds : served[id] > 0 => downloads[id] = NoEntry)
    /\ [][\A r \in 1..NumRequests : ReadsLive(r) => gres'[r] # NotFound]_vars

\* C20 as stated: a stored archive stays retrievable only until the earlier
\* of its first retrieval and the end of its 600-second TTL, and a first
\* retrieval made when the TTL has elapsed answers not-found.
C20_Stated ==
    /\ RetrievableUntilTaken
    /\ [][\A r \in 1..NumRequests : ReadsExpired(r) => gres'[r] = NotFound]_vars

\* C20 as amended: a stored archive stays retrievable only until the earlier
\* of its first retrieval and the end of its 600-second TTL, and a first
\* retrieval made when the TTL has elapsed returns no bytes: it answers
\* not-found, or the 500 retrieval error when its store call throws.
C20_RetrievableUntilTakenOrExpired ==
    /\ RetrievableUntilTaken
    /\ [][\A r \in 1..NumRequests :
            ReadsExpired(r) => gpc'[r] = "done" /\ gres'[r] \in {NotFound, RetrievalError}]_vars

\* The first retrieval of a stored archive, made when its 600 seconds had
\* passed, has answered not-found, and the archive was never served.
C20_Witness ==
    \E r \in 1..NumRequests :
        /\ Finished(r) /\ ~gafter[r] /\ gres[r] = NotFound
        /\ served[gid[r]] = 0
        /\ downloads[gid[r]] # NoEntry
        /\ now >= downloads[gid[r]].expiresAt

---------------------------------------------------------------------------
(* Claims about the frontier of a crawl *)

\* The URLs pending, as a set
Pending == { toVisit[k] : k \in 1..Len(toVisit) }

\* C21: in every state of a crawl run no pending URL is visited and no URL is
\* pending twice; and a URL enters the pending collection only when its host
\* is the host of the crawl target and it was neither visited nor pending.
C21_FrontierDisjoint ==
    /\ [](/\ visited \cap Pending = {}
          /\ Cardinality(Pending) = Len(toVisit))
    /\ [][\A k \in 1..Len(toVisit') :
            toVisit'[k] \notin Pending =>
                /\ toVisit'[k].host = cleanUrl.host
                /\ toVisit'[k] \notin visited]_vars

\* On the small site a page has been visited and two of its links are
\* pending.
C21_Witness ==
    /\ web = "small" /\ rpc = "loop"
    /\ visited # {}
    /\ Len(toVisit) = 2

\* A URL without fragment and query, and the document a URL names
Normalized(url) == url.hash = "" /\ url.search = ""
Document(url) == [url EXCEPT !.hash = "", !.search = ""]

\* C22: every URL visited or pending carries no fragment and no query, and
\* no two visited URLs name the same document.
C22_FrontierNormalized ==
    /\ \A url \in visited \cup Pending : Normalized(url)
    /\ \A url1, url2 \in visited : Document(url1) = Document(url2) => url1 = url2

\* The last request sent to the site is a request of the crawl that came
\* after the request for the first page.
AfterFirstPageFetch ==
    \/ lastFetch.kind = "page" /\ lastFetch.page > 1
    \/ lastFetch.kind = "links"

\* C23: the requests of a run to the site are sent one at a time, each when
\* the one before it has returned, and every request sent after the request
\* for the first page is sent when the run has waited at least crawlDelay
\* milliseconds since its previous request to the site.
C23_FetchesPaced == AfterFirstPageFetch => lastFetch.waited >= crawlDelay

\* This step sends the first request for the current page and it fails:
\* fetchPageContent returns null
PageFetchFails ==
    /\ fetches' # fetches
    /\ lastFetch'.kind = "page" /\ ~lastFetch'.ok

\* The last request sent was the request for a page, and it failed.
PageFetchFailed == lastFetch.kind = "page" /\ ~lastFetch.ok

\* C24: when the fetch of a page fails, its URL stays visited, no page is
\* recorded and no link is pushed, no event is sent and the run goes back
\* to the head of the loop without a request for the links of the page;
\* there, unless the caller leaves, its next step takes the next pending URL
\* if one is left below the ceiling.
C24_FetchFailureSkipsPage ==
    /\ [][PageFetchFails =>
            /\ currentUrl \in visited'
            /\ UNCHANGED <<vaultData, toVisit, visited, stream>>
            /\ rpc' = "loop"]_vars
    /\ [][(/\ PageFetchFailed /\ rpc = "loop" /\ LoopGuard
           /\ stream.state = "open" /\ stream'.state = "open") =>
            /\ currentUrl' = toVisit[Len(toVisit)]
            /\ rpc' \in {"loop", "delay"}]_vars

\* The fetch of the second page failed and the crawl has gone on to the
\* third, with the first page alone recorded.
C24_Witness ==
    /\ PageFetchFailed /\ lastFetch.page = 2
    /\ rpc = "delay" /\ pageCount = 3
    /\ Len(vaultData) = 1

\* C25: a page fetched with success from which no text can be extracted is
\* recorded nowhere: no record of the crawl has empty text, and the archive
\* has no page entry and no manifest line for such a page.
C25_EmptyPageSkipped ==
    /\ \A k \in 1..Len(vaultData) : vaultData[k].content # ""
    /\ archiveBuffer # NoArchive =>
          \A k \in 3..Len(archiveBuffer.entries) :
              archiveBuffer.entries[k].body.content # ""

---------------------------------------------------------------------------
(* Further claims about the policy evaluator *)

\* robots.txt could not be read: the request threw or timed out, the answer
\* was not ok, or reading it threw
PolicyUnreadable == robotsResult # NoResult /\ robotsResponse.status # "ok"

\* C27: when robots.txt cannot be fetched (the request throws, times out or
\* is answered with a status that is not ok) or its evaluation throws, the
\* evaluator returns exactly allowed = true with a crawl delay of 1000 ms,
\* and the run goes on: the stream is the response and the crawl uses that
\* delay.
C27_UnreadablePolicyDefaults ==
    PolicyUnreadable =>
        /\ robotsResult = [allowed |-> TRUE, crawlDelay |-> 1000]
        /\ crawlDelay = 1000
        /\ response = Streaming
        /\ rpc # "rejected"

\* robots.txt was answered with a status that is not ok, and the crawl is
\* under way.
C27_Witness ==
    /\ PolicyUnreadable /\ robotsResponse.status = "notok"
    /\ rpc = "fetchPage" /\ pageCount = 1

\* The agent line that opens the group of line j of a document, or 0 when
\* no agent line stands before it
AgentOf(d, j) ==
    LET before == { i \in 1..(j - 1) : IsAgentLine(d[i]) }
    IN  IF before = {} THEN 0 ELSE CHOOSE i \in before : \A k \in before : k <= i

\* The agent line names every crawler, or this crawler, in any case
IsOwnAgentLine(l) ==
    IsAgentLine(l) /\ LowerLine(ValueOf(l)) \in { <<"*">>, <<"obsidiandownloader">> }

\* Line j is a directive of a group that applies to this crawler
InApplicableGroup(d, j) ==
    /\ ~IsAgentLine(d[j])
    /\ AgentOf(d, j) # 0
    /\ IsOwnAgentLine(d[AgentOf(d, j)])

\* The line declares a delay of a whole number of seconds
DeclaresDelay(l) == FieldOf(l) = "crawl-delay" /\ ValueOf(l) \in { <<"2">>, <<"0">>, <<"-1">> }
DeclaredSeconds(l) ==
    CASE ValueOf(l) = <<"2">> -> 2
      [] ValueOf(l) = <<"0">> -> 0
      [] OTHER -> -1

\* The lines of a document that declare a delay in an applicable group
DelayLines(d) == { j \in 1..Len(d) : InApplicableGroup(d, j) /\ DeclaresDelay(d[j]) }

\* The delay in milliseconds that a declared number of seconds stands for
Floored(seconds) == IF seconds * 1000 >= 500 THEN seconds * 1000 ELSE 500

DelayDirectives(d) ==
    { j \in 1..Len(d) :
        /\ InApplicableGroup(d, j)
        /\ FieldOf(d[j]) = "crawl-delay"
        /\ (DeclaresDelay(d[j]) \/ ValueOf(d[j]) = <<>>) }
SecondsOf(l) == IF ValueOf(l) = <<>> THEN 1 ELSE DeclaredSeconds(l)

DeniesInApplicableGroup(d, j) ==
    /\ InApplicableGroup(d, j)
    /\ FieldOf(d[j]) = "disallow"
    /\ ValueOf(d[j]) \in { <<"/">>, <<>> }

\* The agent line that opens the last applicable group of a document, or 0
LastApplicableGroup(d) ==
    LET own == { i \in 1..Len(d) : IsOwnAgentLine(d[i]) }
    IN  IF own = {} THEN 0 ELSE CHOOSE i \in own : \A k \in own : k <= i

\* C29: when a policy document holds several applicable groups, the
\* decision is that of the last of them in document order: the site is
\* denied exactly when the last applicable group holds a disallow of the
\* whole site, whatever the applicable groups before it hold.
C29_LastGroupWins ==
    Evaluated /\ LastApplicableGroup(robotsResponse.text) # 0 =>
        LET d == robotsResponse.text IN
        robotsResult.allowed =
            ~(\E j \in 1..Len(d) :
                  /\ DeniesInApplicableGroup(d, j)
                  /\ AgentOf(d, j) = LastApplicableGroup(d))

\* C30: a group bears on the decision only if its agent line names every
\* crawler or this crawler, in any case: the site is denied exactly when a
\* group that applies holds a disallow of the whole site, and the delay
\* differs from the default of 1000 ms only when a group that applies holds
\* a delay directive; directives in the groups of other agents and before
\* the first agent line change neither.
C30_OnlyApplicableGroups ==
    Evaluated =>
        LET d == robotsResponse.text IN
        /\ robotsResult.allowed = ~(\E j \in 1..Len(d) : DeniesInApplicableGroup(d, j))
        /\ DelayDirectives(d) = {} => robotsResult.crawlDelay = 1000

\* A document that denies the site and declares a delay in the group of
\* another agent, after a delay before any agent line, has been evaluated
\* to the defaults.
C30_Witness ==
    /\ Evaluated
    /\ robotsResponse.text = << <<"Crawl-delay", ":", " ", "2">>,
                                <<"User-agent", ":", " ", "Googlebot">>,
                                <<"Disallow", ":", " ", "/">> >>
    /\ robotsResult = [allowed |-> TRUE, crawlDelay |-> 1000]

---------------------------------------------------------------------------
(* Claims about the archive and the end of a run *)

\* C31: for every archive built, the page list of the manifest, its
\* total_pages, the page count of the README and the number of page entries
\* all equal the number of pages the crawl recorded; the complete event
\* reports that number as totalPages; and it is at most the number of URLs
\* visited.
C31_CountsAgree ==
    /\ Len(vaultData) <= Cardinality(visited)
    /\ archiveBuffer # NoArchive =>
          /\ Len(archiveBuffer.entries[1].body.pages) = Len(vaultData)
          /\ archiveBuffer.entries[1].body.total_pages = Len(vaultData)
          /\ archiveBuffer.entries[2].body.pages = Len(vaultData)
          /\ Len(archiveBuffer.entries) - 2 = Len(vaultData)
    /\ stream.completes > 0 => stream.totalPages = Len(vaultData)

\* A run that visited three URLs and recorded two pages has sent its
\* complete event.
C31_Witness ==
    /\ stream.completes = 1 /\ stream.totalPages = 2
    /\ Cardinality(visited) = 3
    /\ Len(archiveBuffer.entries) = 4

\* The run has been given its download id and createArchive has failed.
BuildFailed == downloadId # "none" /\ archiveBuffer = NoArchive /\ rpc # "archive"

\* An archive with its manifest, its README and every page the manifest counts
WholeArchive(archive) ==
    /\ Len(archive.entries) >= 2
    /\ Len(archive.entries) = archive.entries[1].body.total_pages + 2

PageStored ==
    /\ rpc = "fetchPage" /\ rpc' # "fetchPage"
    /\ fetches' = fetches + 1
    /\ lastFetch'.kind = "page" /\ lastFetch'.ok

\* The places of the records kept under the archive path of url
RecordsOf(records, url) ==
    { k \in 1..Len(records) : records[k].path = FileName(url) }

\* C33: a run keeps one record for an archive path, however many visited
\* URLs map to it: a record is kept under the path of its source URL, no two
\* records share a path, and storing a page leaves exactly one record for
\* its path, with the source URL and the text and title of the page just
\* fetched, and leaves the records of the other paths as they were.
C33_LastFetchWins ==
    /\ [](\A k \in 1..Len(vaultData) :
            /\ vaultData[k].url \in visited
            /\ RecordsOf(vaultData, vaultData[k].url) = {k})
    /\ [][PageStored =>
            /\ Cardinality(RecordsOf(vaultData', currentUrl)) = 1
            /\ \A k \in RecordsOf(vaultData', currentUrl) :
                  /\ vaultData'[k].url = currentUrl
                  /\ \E pageData \in PageChoices \ {NoPage} :
                        /\ vaultData'[k].content = pageData.content
                        /\ vaultData'[k].title = pageData.title
            /\ \A k \in 1..Len(vaultData) \ RecordsOf(vaultData, currentUrl) :
                  vaultData'[k] = vaultData[k]
            /\ Len(vaultData') = Len(vaultData)
                    + (IF RecordsOf(vaultData, currentUrl) = {} THEN 1 ELSE 0)]_vars

\* The start page was fetched without and then with a trailing slash, both
\* with success: the one record of the path has the URL with the slash.
C33_Witness ==
    /\ cleanUrl = RootUrl
    /\ {RootUrl, SlashUrl} \subseteq visited
    /\ currentUrl = SlashUrl /\ rpc = "fetchLinks"
    /\ Len(vaultData) = 1
    /\ vaultData[1].path = "vault-a.md" /\ vaultData[1].url = SlashUrl
    /\ vaultData[1].crawledAt = now

\* C34: once a complete event has been sent, the archive of the run is in
\* the store under the download id the event carries, with its TTL running:
\* the read a retrieval of that id makes returns the bytes of the archive,
\* which the retrieval decodes to the archive the run built.
C34_CompleteAfterStore ==
    stream.completes >= 1 =>
        /\ stream.completes = 1
        /\ stream.downloadId = downloadId /\ downloadId \in DownloadIds
        /\ archiveBuffer # NoArchive
        /\ downloads[stream.downloadId] # NoEntry
        /\ now < downloads[stream.downloadId].expiresAt
        /\ RedisGet(stream.downloadId) = ToBase64(archiveBuffer)
        /\ Served(FromBase64(RedisGet(stream.downloadId))) = Served(archiveBuffer)

\* The run has sent its complete event for an archive of two pages.
C34_Witness ==
    /\ stream.completes = 1 /\ rpc = "closed"
    /\ Len(vaultData) = 2
    /\ RedisGet(stream.downloadId) = ToBase64(archiveBuffer)

\* The archive of the run is in the store under its download id.
ArtifactStored ==
    /\ downloadId \in DownloadIds
    /\ downloads[downloadId] # NoEntry
    /\ downloads[downloadId].data = ToBase64(archiveBuffer)

\* The counters with total, daily and the counter of the site one higher
OneEach(c, id) ==
    [total |-> c.total + 1, daily |-> c.daily + 1,
     vault |-> [v \in VaultIds |-> IF v = id THEN c.vault[v] + 1 ELSE c.vault[v]]]

\* The counters after the first n of the three increments
CountedUpTo(c, id, n) ==
    [total |-> IF n >= 1 THEN c.total + 1 ELSE c.total,
     daily |-> IF n >= 2 THEN c.daily + 1 ELSE c.daily,
     vault |-> [v \in VaultIds |->
                   IF v = id /\ n >= 3 THEN c.vault[v] + 1 ELSE c.vault[v]]]

\* C35 as stated: only the counting step of a run that has stored its
\* archive changes a counter, and that step raises the total, the daily and
\* the per-site counter by exactly one each.
C35_Stated ==
    /\ [][counters' # counters => rpc = "count" /\ ArtifactStored]_vars
    /\ [][rpc = "count" /\ rpc' # "count" =>
            counters' = OneEach(counters, vaultId)]_vars

\* C35: only the counting step of a run that has stored its archive changes
\* a counter; it raises the total, then the daily, then the per-site counter
\* of the run's site by one each, up to the first of these store calls that
\* fails, and all three when none fails; every other step of a run, and so
\* every run that ends before its archive is stored, leaves the counters
\* as they were.
C35_CountersFrame ==
    /\ [](counters # NoCounters => ArtifactStored /\ rpc \in {"closed", "aborted"})
    /\ [][counters' # counters => rpc = "count" /\ ArtifactStored]_vars
    /\ [][rpc = "count" /\ rpc' # "count" =>
            \E n \in 0..3 : counters' = CountedUpTo(counters, vaultId, n)]_vars
    /\ [](rpc \in {"closed", "aborted"} /\ ~ArtifactStored => counters = NoCounters)

\* A run has stored its archive and sent its complete event; the call for
\* the per-site counter failed after the total and the daily counter rose.
C35_Witness ==
    /\ rpc = "closed" /\ stream.completes = 1 /\ ArtifactStored
    /\ counters.total = 1 /\ counters.daily = 1
    /\ counters.vault[vaultId] = 0

\* C36: every URL a run fetches, and every page of its archive, is of the
\* requested site: the first segment of its path is the site identifier of
\* the run.
C36_StaysOnSite ==
    /\ \A url \in visited : extractVaultId(url) = vaultId
    /\ \A k \in 1..Len(vaultData) : extractVaultId(vaultData[k].url) = vaultId
    /\ archiveBuffer # NoArchive =>
          \A k \in 3..Len(archiveBuffer.entries) :
              extractVaultId(archiveBuffer.entries[k].body.source_url) = vaultId

\* C37: no archive is stored for a site, and no complete event is sent for
\* it, at a moment when the site is in the blocked set: a run whose site an
\* owner report has blocked stores nothing and completes nothing.
C37_NoArtifactForBlockedSite ==
    /\ [][(vaultId \in blocked_vaults) => UNCHANGED <<downloads>>]_vars
    /\ [][(vaultId \in blocked_vaults) => (stream'.completes = stream.completes)]_vars

\* C38: no two entries of an archive have the same name: the pages have
\* paths different from each other and from vault-metadata.json and
\* README.md.
C38_EntryNamesDistinct ==
    archiveBuffer # NoArchive =>
        \A j, k \in 1..Len(archiveBuffer.entries) :
            archiveBuffer.entries[j].name = archiveBuffer.entries[k].name => j = k

=============================================================================
